---------------------------- MODULE Spec2Model ----------------------------
(***************************************************************************)
(* Model of the detection-summary pipeline of hass-sandbox:                *)
(*   - the adaptive budgeted frame selection engine                        *)
(*     (apps/detection_summary_app/selection.py), with the scorers the     *)
(*     orchestrator hands to it (apps/detection_summary_app/manager.py);   *)
(*   - the result store (apps/detection_summary_store.py).                 *)
(* Scores are floats in the source; the model uses integers.               *)
(***************************************************************************)
EXTENDS Integers, Sequences, FiniteSets, TLC

VARIABLES
    \* ---- inputs of adaptive_select_and_score ----
    total_frames,   \* total_frames argument
    budget_arg,     \* budget argument, before line 82 clamps it
    mode,           \* which scorer callables the caller passed
    provider,       \* per frame index: what the scoring provider does
    \* ---- state of one run of adaptive_select_and_score ----
    scored,         \* dict[int, ScoreResult] in insertion order
    probes,         \* list of indices handed to the scorer
    calls,          \* indices the scoring provider was actually invoked on
    pc,             \* position in the function body
    raised,         \* exception that left the function, "none" if none
    loc,            \* local variables of the function body
    meta,           \* the SelectionMeta returned
    \* ---- DetectionSummaryStore ----
    data,           \* self._data["bundles"]: key -> list of bundles
    disk,           \* the JSON document at state_path
    now,            \* time.time()
    npub,           \* number of publish_bundle calls so far
    ret,            \* the last store call and what it returned
    shape,          \* what self._data["bundles"] is: a dict of lists, or not
    sraised,        \* exception the last store call raised, "none" if none
    lock,           \* the thread that holds self._lock, "none" if free
    waiter,         \* a thread in wait_for_bundle or wait_for_run_id
    tmp,            \* the temporary file next to state_path
    savepc,         \* position of the thread that is inside _save
    heap,           \* which dict objects the store and its callers hold
    orch            \* one DetectionSummary app: its fields, timers and events

selInputs == <<total_frames, budget_arg, mode, provider>>
selState == <<scored, probes, calls, pc, raised, loc, meta>>
storeVars == <<data, disk, now, npub, ret, shape, sraised, lock, waiter, tmp, savepc>>
appVars == <<heap, orch>>
vars == <<total_frames, budget_arg, mode, provider, scored, probes, calls, pc,
          raised, loc, meta, data, disk, now, npub, ret, shape, sraised, lock,
          waiter, tmp, savepc, heap, orch>>

---------------------------------------------------------------------------
\* Bounds of the model.

MaxFrames == 5
MaxBudget == 4

---------------------------------------------------------------------------
\* Program constants.

NoPeopleThreshold == 1
LookaheadAfterNoPeople == 2
MaxIterations == 6

---------------------------------------------------------------------------
\* Helpers.

Min2(x, y) == IF x <= y THEN x ELSE y
Max2(x, y) == IF x >= y THEN x ELSE y

\* All orders in which the elements of a finite set can be listed.
Perms(S) ==
    {f \in [1..Cardinality(S) -> S] : \A p, q \in 1..Cardinality(S) : p # q => f[p] # f[q]}

RECURSIVE SortedSeq(_)
\* sorted(S) for a set of integers.
SortedSeq(S) ==
    IF S = {} THEN <<>>
    ELSE LET m == CHOOSE x \in S : \A y \in S : x <= y
         IN <<m>> \o SortedSeq(S \ {m})

---------------------------------------------------------------------------
\* ScoreResult values.

ScoreResult(person, face, frame, pose, summary) ==
    [person_score |-> person, face_score |-> face, frame_score |-> frame,
     pose |-> pose, summary |-> summary]

\* ScoreResult(0, 0, 0, "none", "", {}) of ensure.
Placeholder == ScoreResult(0, 0, 0, "none", "")

\* What score_one builds when the provider call failed: data = {}.
FailedScore == ScoreResult(0, 0, 0, "", "")

\* The results the modelled provider can return for a frame.
ResultSet ==
    { ScoreResult(0, 0, 0, "none", ""),
      ScoreResult(9, 0, 3, "walking", "idx"),
      ScoreResult(9, 10, 8, " Standing", " idx ") }

Outcomes ==
    {[ok |-> TRUE, res |-> r] : r \in ResultSet} \cup {[ok |-> FALSE, res |-> Placeholder]}

\* (pose or "").strip().lower()
NormPose(p) ==
    CASE p = " Standing" -> "standing"
      [] p = "Standing" -> "standing"
      [] OTHER -> p

\* (summary or "").strip()
StripSummary(s) ==
    CASE s = " " -> ""
      [] s = " idx " -> "idx"
      [] OTHER -> s

_pose_rank(pose) ==
    LET p == NormPose(pose)
    IN CASE p \in {"standing", "stationary"} -> 3
         [] p = "sitting" -> 2
         [] p \in {"walking", "moving"} -> 1
         [] OTHER -> 0

\* A key that does not look at face_score.
_pick_key_noface(res) ==
    << IF res.person_score > 0 THEN 1 ELSE 0,
       res.frame_score,
       _pose_rank(res.pose),
       res.person_score,
       IF StripSummary(res.summary) # "" THEN 1 ELSE 0 >>

_pick_key(res) ==
    << IF res.person_score > 0 THEN 1 ELSE 0,
       res.face_score,
       res.frame_score,
       _pose_rank(res.pose),
       res.person_score,
       IF StripSummary(res.summary) # "" THEN 1 ELSE 0 >>

\* Python's tuple comparison k1 < k2.
KeyLess(k1, k2) ==
    \E p \in 1..Len(k1) : k1[p] < k2[p] /\ \A q \in 1..(p - 1) : k1[q] = k2[q]

\* k1 >= k2
KeyGE(k1, k2) == ~KeyLess(k1, k2)

---------------------------------------------------------------------------
\* The scored dict: a sequence of [idx, res] in insertion order.

n == total_frames

\* The budget as passed, without the clamp of line 82.
budget_unclamped == budget_arg

\* budget = max(1, int(budget))
budget == Max2(1, budget_arg)

Keys(sc) == {sc[p].idx : p \in DOMAIN sc}
Has(sc, i) == i \in Keys(sc)
Get(sc, i) == sc[CHOOSE p \in DOMAIN sc : sc[p].idx = i].res

RECURSIVE PyMaxLastFrom(_, _, _)
\* A max() that keeps the last key of maximal _pick_key in iteration order.
PyMaxLastFrom(sc, p, best) ==
    IF p > Len(sc) THEN sc[best].idx
    ELSE PyMaxLastFrom(sc, p + 1,
                       IF KeyLess(_pick_key(sc[p].res), _pick_key(sc[best].res)) THEN best ELSE p)

PyMaxLast(sc) == PyMaxLastFrom(sc, 2, 1)

RECURSIVE PyMaxFrom(_, _, _)
\* max(scored.keys(), key=...): the first key of maximal _pick_key in iteration order.
PyMaxFrom(sc, p, best) ==
    IF p > Len(sc) THEN sc[best].idx
    ELSE PyMaxFrom(sc, p + 1,
                   IF KeyLess(_pick_key(sc[best].res), _pick_key(sc[p].res)) THEN p ELSE best)

PyMax(sc) == PyMaxFrom(sc, 2, 1)

SelectionMeta(sc, pr, cutoff, best) ==
    [budget |-> budget, scored_indices |-> SortedSeq(Keys(sc)), probes |-> pr,
     cutoff_idx_inclusive |-> cutoff, best_idx |-> best]

NoMeta ==
    [budget |-> 0, scored_indices |-> <<>>, probes |-> <<>>,
     cutoff_idx_inclusive |-> -1, best_idx |-> -1]

---------------------------------------------------------------------------
\* The scorers.

\* manager.py score_one: the provider call is wrapped in try/except; a failure
\* leaves data = {} and the result is built from the defaults.
score_one(i) == IF provider[i].ok THEN provider[i].res ELSE FailedScore

\* A score_indices that has no entry for an index whose provider call failed.
score_indices_dropping(uniq) ==
    LET have == {i \in {uniq[p] : p \in DOMAIN uniq} : provider[i].ok}
    IN {[p \in 1..Cardinality(have) |-> [idx |-> f[p], res |-> provider[f[p]].res]]
        : f \in Perms(have)}

\* The dicts a batch scorer can return for uniq, as sequences in dict order.
\*   "manager": DetectionSummary._build_bundle.score_indices, one entry per
\*              requested index, in completion order;
\*   "batch":   a batch scorer that has no result for a failed index.
score_indices(uniq) ==
    LET asked == {uniq[p] : p \in DOMAIN uniq}
        have == IF mode = "manager" THEN asked ELSE {i \in asked : provider[i].ok}
    IN {[p \in 1..Cardinality(have) |->
            [idx |-> f[p],
             res |-> IF mode = "manager" THEN score_one(f[p]) ELSE provider[f[p]].res]]
        : f \in Perms(have)}

RECURSIVE Merge(_, _)
\* for k, v in got.items(): if k not in scored and v is not None: scored[k] = v
Merge(sc, got) ==
    IF got = <<>> THEN sc
    ELSE Merge(IF Has(sc, Head(got).idx) THEN sc ELSE Append(sc, Head(got)), Tail(got))

RECURSIVE ScoreEach(_, _)
\* for ii in uniq: scored[ii] = score_index(ii); score_index raises when the
\* provider fails.
ScoreEach(st, uniq) ==
    IF uniq = <<>> THEN st
    ELSE LET ii == Head(uniq)
             st1 == [st EXCEPT !.calls = Append(@, ii)]
         IN IF ~provider[ii].ok THEN [st1 EXCEPT !.raised = TRUE]
            ELSE ScoreEach([st1 EXCEPT !.scored = Append(@, [idx |-> ii, res |-> provider[ii].res])],
                           Tail(uniq))

Clamp(i) == Max2(0, Min2(n - 1, i))

RECURSIVE UniqOf(_, _, _)
\* lines 92-99: clamp, drop what is scored already, drop repeats.
UniqOf(indices, sc, uniq) ==
    IF indices = <<>> THEN uniq
    ELSE LET ii == Clamp(Head(indices))
         IN UniqOf(Tail(indices), sc,
                   IF Has(sc, ii) \/ (\E p \in DOMAIN uniq : uniq[p] = ii)
                   THEN uniq ELSE Append(uniq, ii))

\* ensure_batch without the truncation of lines 102-103.
TruncateOff(uniq, sc) == uniq

\* remaining = budget - len(scored); uniq = uniq[:remaining]
Truncate(uniq, sc) == SubSeq(uniq, 1, Min2(Len(uniq), budget - Len(sc)))

\* ensure_batch: the states it can leave, from state st = [scored, probes, calls, raised].
ensure_batch(st, indices) ==
    IF st.raised \/ indices = <<>> \/ Len(st.scored) >= budget THEN {st}
    ELSE LET uniq0 == UniqOf(indices, st.scored, <<>>)
         IN IF uniq0 = <<>> THEN {st}
            ELSE LET uniq == Truncate(uniq0, st.scored)
                     st1 == [st EXCEPT !.probes = @ \o uniq]
                 IN IF mode # "index"
                    THEN {[st1 EXCEPT !.calls = @ \o uniq, !.scored = Merge(@, got)]
                          : got \in score_indices(uniq)}
                    ELSE {ScoreEach(st1, uniq)}

\* ensure: the [st, r] pairs it can produce (state left, ScoreResult returned).
ensure(st, i0) ==
    LET i == Clamp(i0)
    IN IF st.raised THEN {[st |-> st, r |-> Placeholder]}
       ELSE IF Has(st.scored, i) THEN {[st |-> st, r |-> Get(st.scored, i)]}
       ELSE IF Len(st.scored) >= budget THEN {[st |-> st, r |-> Placeholder]}
       ELSE {[st |-> s2, r |-> IF Has(s2.scored, i) THEN Get(s2.scored, i) ELSE Placeholder]
             : s2 \in ensure_batch(st, <<i>>)}


---------------------------------------------------------------------------
\* The random draws of one run (rng = random.Random(seed)): every outcome that
\* some seed can produce.

\* int((u * u * u) * max_idx) for u in [0, 1), clamped to [0, max_idx].
CubicDraws(max_idx) == IF max_idx <= 0 THEN {0} ELSE 0..(max_idx - 1)

\* _weighted_random_indices(rng, n, k, max_idx_inclusive=...): the lists it can return.
_weighted_random_indices(nn, k, max_idx_inclusive) ==
    IF nn <= 0 \/ k <= 0 THEN {<<>>}
    ELSE LET max_idx == Max2(0, Min2(nn - 1, max_idx_inclusive))
         IN {SortedSeq(out) : out \in {o \in SUBSET CubicDraws(max_idx) :
                                          Cardinality(o) = Min2(k, nn)}}

\* rng.randint(lo, hi)
RandInt(lo, hi) == lo..hi

\* Lines 132-139: the seed sets the draws can give.
SeedSets ==
    LET early_max == (3 * (n - 1)) \div 4
        base == {0, n \div 2, n - 1}
        extra == _weighted_random_indices(n, Min2(1, Max2(0, budget - 3)), early_max)
        span == Max2(1, n \div 6)
        jitter == IF budget >= 4
                  THEN {{Clamp((n \div 2) + d)} : d \in RandInt(-span, span)}
                  ELSE {{}}
    IN {base \cup {e[p] : p \in DOMAIN e} \cup j : e \in extra, j \in jitter}

iterations == Min2(MaxIterations, Max2(2, budget \div 2))

---------------------------------------------------------------------------
\* adaptive_select_and_score, one action per step of its body.

LocInit ==
    [i |-> 0, lo |-> 0, hi |-> 0, iter |-> 0, best_idx |-> -1, cutoff |-> -1,
     step |-> 0, last_people |-> -1, first_no_people |-> -1, a |-> 0, b |-> 0,
     boundary |-> -1, look_ok |-> TRUE, k |-> 0, radius |-> 0, candidates |-> {}]

Cur == [scored |-> scored, probes |-> probes, calls |-> calls, raised |-> FALSE]

Commit(st) == scored' = st.scored /\ probes' = st.probes /\ calls' = st.calls

Raise(kind) == pc' = "raised" /\ raised' = kind

\* Lines 81-86 and the test of line 124.
Enter ==
    /\ pc = "start"
    /\ pc' = IF n <= budget THEN "all" ELSE "seed"
    /\ UNCHANGED <<selInputs, scored, probes, calls, raised, loc, meta, storeVars, appVars>>

\* Lines 125-126: for i in range(n): ensure(i).
ScoreAll ==
    /\ pc = "all"
    /\ loc.i < n
    /\ \E e \in ensure(Cur, loc.i) :
         /\ Commit(e.st)
         /\ IF e.st.raised
            THEN Raise("ScorerError") /\ UNCHANGED loc
            ELSE /\ loc' = [loc EXCEPT !.i = @ + 1]
                 /\ UNCHANGED <<pc, raised>>
    /\ UNCHANGED <<selInputs, meta, storeVars, appVars>>

\* Lines 127-129: max() over an empty dict raises ValueError.
ReturnAll ==
    /\ pc = "all"
    /\ loc.i >= n
    /\ IF scored = <<>>
       THEN Raise("ValueError") /\ UNCHANGED <<loc, meta>>
       ELSE /\ loc' = [loc EXCEPT !.best_idx = PyMax(scored), !.cutoff = n - 1]
            /\ meta' = SelectionMeta(scored, probes, n - 1, PyMax(scored))
            /\ pc' = "done"
            /\ UNCHANGED raised
    /\ UNCHANGED <<selInputs, scored, probes, calls, storeVars, appVars>>

\* Lines 131-140: seeding.
Seed ==
    /\ pc = "seed"
    /\ \E seeds \in SeedSets :
         \E st \in ensure_batch(Cur, SortedSeq(seeds)) :
            /\ Commit(st)
            /\ IF st.raised
               THEN Raise("ScorerError")
               ELSE pc' = "seeded" /\ UNCHANGED raised
    /\ UNCHANGED <<selInputs, loc, meta, storeVars, appVars>>

\* Lines 143-151.
AfterSeed ==
    /\ pc = "seeded"
    /\ IF Len(scored) >= budget
       THEN /\ loc' = [loc EXCEPT !.best_idx = PyMax(scored), !.cutoff = n - 1]
            /\ meta' = SelectionMeta(scored, probes, n - 1, PyMax(scored))
            /\ pc' = "done"
       ELSE /\ loc' = [loc EXCEPT !.lo = 0, !.hi = n - 1, !.iter = 0]
            /\ pc' = "search"
            /\ UNCHANGED meta
    /\ UNCHANGED <<selInputs, scored, probes, calls, raised, storeVars, appVars>>

\* Lines 152-163: one iteration of the ternary-ish search.
PeakSearch ==
    /\ pc = "search"
    /\ loc.iter < iterations
    /\ ~(Len(scored) >= budget \/ (loc.hi - loc.lo) < 3)
    /\ LET m1 == loc.lo + ((loc.hi - loc.lo) \div 3)
           m2 == loc.hi - ((loc.hi - loc.lo) \div 3)
       IN \E s1 \in ensure_batch(Cur, <<m1, m2>>) :
          \E e1 \in ensure(s1, m1) :
          \E e2 \in ensure(e1.st, m2) :
             /\ Commit(e2.st)
             /\ IF e2.st.raised
                THEN Raise("ScorerError") /\ UNCHANGED loc
                ELSE /\ loc' = IF KeyGE(_pick_key(e1.r), _pick_key(e2.r))
                               THEN [loc EXCEPT !.hi = m2, !.iter = @ + 1]
                               ELSE [loc EXCEPT !.lo = m1, !.iter = @ + 1]
                     /\ UNCHANGED <<pc, raised>>
    /\ UNCHANGED <<selInputs, meta, storeVars, appVars>>

\* Lines 171-176: a cutoff inferred from what is scored already.
InferredCutoff(sc, best) ==
    LET existing_no == {i \in Keys(sc) : i > best /\ Get(sc, i).person_score <= NoPeopleThreshold}
    IN IF existing_no = {} THEN n - 1
       ELSE LET first_no == CHOOSE x \in existing_no : \A y \in existing_no : x <= y
                existing_people == {i \in Keys(sc) : i < first_no
                                        /\ Get(sc, i).person_score > NoPeopleThreshold}
            IN IF existing_people = {} THEN n - 1
               ELSE CHOOSE x \in existing_people : \A y \in existing_people : x >= y

\* Lines 165-180: the search loop is left.
PeakDone ==
    /\ pc = "search"
    /\ ~(loc.iter < iterations /\ ~(Len(scored) >= budget \/ (loc.hi - loc.lo) < 3))
    /\ IF scored = <<>>
       THEN Raise("ValueError") /\ UNCHANGED loc
       ELSE /\ loc' = [loc EXCEPT !.best_idx = PyMax(scored),
                                  !.cutoff = InferredCutoff(scored, PyMax(scored)),
                                  !.step = 1,
                                  !.last_people = PyMax(scored),
                                  !.first_no_people = -1]
            /\ pc' = "walk"
            /\ UNCHANGED raised
    /\ UNCHANGED <<selInputs, scored, probes, calls, meta, storeVars, appVars>>

\* Lines 181-193: one iteration of the forward walk.
WalkForward ==
    /\ pc = "walk"
    /\ Len(scored) < budget
    /\ loc.best_idx + loc.step < n
    /\ LET j == loc.best_idx + loc.step
       IN \E s1 \in ensure_batch(Cur, <<j>>) :
          \E e \in ensure(s1, j) :
             /\ Commit(e.st)
             /\ IF e.st.raised
                THEN Raise("ScorerError") /\ UNCHANGED loc
                ELSE IF e.r.person_score <= NoPeopleThreshold
                THEN /\ loc' = [loc EXCEPT !.first_no_people = j, !.a = loc.last_people, !.b = j]
                     /\ pc' = "boundary"
                     /\ UNCHANGED raised
                ELSE /\ loc' = [loc EXCEPT !.last_people = j, !.step = 2 * @, !.radius = 1]
                     /\ pc' = IF 2 * loc.step > n THEN "neighbors" ELSE "walk"
                     /\ UNCHANGED raised
    /\ UNCHANGED <<selInputs, meta, storeVars, appVars>>

\* Lines 181-184, 195: the walk ends without a no-people frame.
WalkEnd ==
    /\ pc = "walk"
    /\ ~(Len(scored) < budget /\ loc.best_idx + loc.step < n)
    /\ loc' = [loc EXCEPT !.radius = 1]
    /\ pc' = "neighbors"
    /\ UNCHANGED <<selInputs, scored, probes, calls, raised, meta, storeVars, appVars>>

\* Lines 199-205: one iteration of the boundary search.
BoundarySearch ==
    /\ pc = "boundary"
    /\ (loc.b - loc.a) > 1
    /\ Len(scored) < budget
    /\ LET mid == (loc.a + loc.b) \div 2
       IN \E e \in ensure(Cur, mid) :
             /\ Commit(e.st)
             /\ IF e.st.raised
                THEN Raise("ScorerError") /\ UNCHANGED loc
                ELSE /\ loc' = IF e.r.person_score <= NoPeopleThreshold
                               THEN [loc EXCEPT !.b = mid]
                               ELSE [loc EXCEPT !.a = mid]
                     /\ UNCHANGED <<pc, raised>>
    /\ UNCHANGED <<selInputs, meta, storeVars, appVars>>

\* Lines 206-210.
BoundaryDone ==
    /\ pc = "boundary"
    /\ ~((loc.b - loc.a) > 1 /\ Len(scored) < budget)
    /\ loc' = [loc EXCEPT !.boundary = loc.a, !.look_ok = TRUE, !.k = 1]
    /\ pc' = "look"
    /\ UNCHANGED <<selInputs, scored, probes, calls, raised, meta, storeVars, appVars>>

\* Lines 211-219: one iteration of the look-ahead loop.
Lookahead ==
    /\ pc = "look"
    /\ loc.k <= LookaheadAfterNoPeople
    /\ LET jj == Min2(n - 1, loc.b + loc.k)
       IN IF jj <= loc.boundary \/ Len(scored) >= budget
          THEN /\ loc' = [loc EXCEPT !.k = @ + 1]
               /\ UNCHANGED <<scored, probes, calls, pc, raised>>
          ELSE \E s1 \in ensure_batch(Cur, <<jj>>) :
               \E e \in ensure(s1, jj) :
                  /\ Commit(e.st)
                  /\ IF e.st.raised
                     THEN Raise("ScorerError") /\ UNCHANGED loc
                     ELSE /\ loc' = IF e.r.person_score > NoPeopleThreshold
                                    THEN [loc EXCEPT !.look_ok = FALSE,
                                                     !.k = LookaheadAfterNoPeople + 1]
                                    ELSE [loc EXCEPT !.k = @ + 1]
                          /\ UNCHANGED <<pc, raised>>
    /\ UNCHANGED <<selInputs, meta, storeVars, appVars>>

\* Lines 220-221, 224-226.
LookDone ==
    /\ pc = "look"
    /\ loc.k > LookaheadAfterNoPeople
    /\ loc' = [loc EXCEPT !.cutoff = IF loc.look_ok THEN loc.boundary ELSE @, !.radius = 1]
    /\ pc' = "neighbors"
    /\ UNCHANGED <<selInputs, scored, probes, calls, raised, meta, storeVars, appVars>>

\* The neighbours of best_idx at one radius, inside [0, n - 1] whatever the cutoff.
NeighborBatchAnywhere(best, radius, cutoff) ==
    (IF 0 <= best - radius /\ best - radius <= n - 1 THEN <<best - radius>> ELSE <<>>)
    \o (IF 0 <= best + radius /\ best + radius <= n - 1 THEN <<best + radius>> ELSE <<>>)

\* Lines 229-231: the neighbours of best_idx at one radius, inside [0, cutoff].
NeighborBatch(best, radius, cutoff) ==
    (IF 0 <= best - radius /\ best - radius <= cutoff THEN <<best - radius>> ELSE <<>>)
    \o (IF 0 <= best + radius /\ best + radius <= cutoff THEN <<best + radius>> ELSE <<>>)

\* A neighbour fill that widens the radius only when the batch scored a frame.
NeighborsWhenScored ==
    /\ pc = "neighbors"
    /\ Len(scored) < budget
    /\ loc.radius <= Max2(3, budget)
    /\ \E st \in ensure_batch(Cur, NeighborBatch(loc.best_idx, loc.radius, loc.cutoff)) :
         /\ Commit(st)
         /\ IF st.raised
            THEN Raise("ScorerError") /\ UNCHANGED loc
            ELSE /\ loc' = IF Len(st.scored) > Len(scored)
                           THEN [loc EXCEPT !.radius = @ + 1] ELSE loc
                 /\ UNCHANGED <<pc, raised>>
    /\ UNCHANGED <<selInputs, meta, storeVars, appVars>>

\* Lines 227-233: one radius of the neighbour fill.
Neighbors ==
    /\ pc = "neighbors"
    /\ Len(scored) < budget
    /\ loc.radius <= Max2(3, budget)
    /\ \E st \in ensure_batch(Cur, NeighborBatch(loc.best_idx, loc.radius, loc.cutoff)) :
         /\ Commit(st)
         /\ IF st.raised
            THEN Raise("ScorerError") /\ UNCHANGED loc
            ELSE /\ loc' = [loc EXCEPT !.radius = @ + 1]
                 /\ UNCHANGED <<pc, raised>>
    /\ UNCHANGED <<selInputs, meta, storeVars, appVars>>

\* Lines 235-238: candidates = list(range(0, cutoff + 1)); rng.shuffle(candidates).
NeighborsDone ==
    /\ pc = "neighbors"
    /\ ~(Len(scored) < budget /\ loc.radius <= Max2(3, budget))
    /\ loc' = [loc EXCEPT !.candidates = IF Len(scored) < budget THEN 0..loc.cutoff ELSE {}]
    /\ pc' = "fill"
    /\ UNCHANGED <<selInputs, scored, probes, calls, raised, meta, storeVars, appVars>>

\* Lines 239-242: the next candidate of the shuffled list that ensure has to score
\* (ensure returns at once for a scored index); the shuffle allows any order.
RandomFill ==
    /\ pc = "fill"
    /\ Len(scored) < budget
    /\ \E j \in loc.candidates \ Keys(scored) :
       \E e \in ensure(Cur, j) :
          /\ Commit(e.st)
          /\ IF e.st.raised
             THEN Raise("ScorerError") /\ UNCHANGED loc
             ELSE /\ loc' = [loc EXCEPT !.candidates = (@ \ Keys(scored)) \ {j}]
                  /\ UNCHANGED <<pc, raised>>
    /\ UNCHANGED <<selInputs, meta, storeVars, appVars>>

\* Lines 244-252.
Return ==
    /\ pc = "fill"
    /\ ~(Len(scored) < budget /\ loc.candidates \ Keys(scored) # {})
    /\ IF scored = <<>>
       THEN Raise("ValueError") /\ UNCHANGED <<loc, meta>>
       ELSE /\ loc' = [loc EXCEPT !.best_idx = PyMax(scored)]
            /\ meta' = SelectionMeta(scored, probes, loc.cutoff, PyMax(scored))
            /\ pc' = "done"
            /\ UNCHANGED raised
    /\ UNCHANGED <<selInputs, scored, probes, calls, storeVars, appVars>>

SelNext ==
    \/ Enter
    \/ ScoreAll
    \/ ReturnAll
    \/ Seed
    \/ AfterSeed
    \/ PeakSearch
    \/ PeakDone
    \/ WalkForward
    \/ WalkEnd
    \/ BoundarySearch
    \/ BoundaryDone
    \/ Lookahead
    \/ LookDone
    \/ Neighbors
    \/ NeighborsDone
    \/ RandomFill
    \/ Return

---------------------------------------------------------------------------
\* DetectionSummaryStore.  Times are whole hours, so that retention_hours * 3600
\* seconds is retention_hours time units.

MaxBundlesPerKey == 2
MaxPublishes == 3
MaxTime == 1
MaxScore == 1

StoreKeys == {"garage", "porch"}
RunIds == {"a", "b"}

\* An Optional value: <<>> is None, <<v>> is v.
None == <<>>
Some(v) == <<v>>

\* self._data = {"version": 1, "bundles": {}}; a key without a list reads as [].
EmptyBundles == [key \in StoreKeys |-> <<>>]

\* The forms the text at state_path can have: a document _save wrote, or text
\* that is no JSON, a JSON value that is no object, an object without "bundles",
\* an object whose "bundles" is a list, an object whose "bundles" is a string.
WellFormed == "ok"
MalformedForms == {"unparseable", "not_object", "no_bundles", "bundles_list", "bundles_string"}

\* No file at state_path.
NoDocument == [exists |-> FALSE, form |-> WellFormed, version |-> 1, bundles |-> EmptyBundles]

\* An encoding that writes every bundle as not consumed.
JsonOfUnconsumed(b) ==
    [run_id |-> <<"string", b.run_id>>,
     created_at_epoch |-> <<"number", b.created_at_epoch>>,
     bundle_key |-> <<"string", b.bundle_key>>,
     score |-> <<"number", b.score>>,
     consumed |-> <<"false">>,
     consumed_at_utc |-> <<"absent">>]

\* json.dumps of one bundle: a str becomes a string, a float a number, a bool
\* true or false; a key the dict does not have is not written.
JsonOf(b) ==
    [run_id |-> <<"string", b.run_id>>,
     created_at_epoch |-> <<"number", b.created_at_epoch>>,
     bundle_key |-> <<"string", b.bundle_key>>,
     score |-> <<"number", b.score>>,
     consumed |-> <<IF b.consumed THEN "true" ELSE "false">>,
     consumed_at_utc |-> IF b.consumed_at_utc = None THEN <<"absent">>
                         ELSE <<"string", b.consumed_at_utc[1]>>]

\* json.loads of one bundle.
BundleOf(j) ==
    [run_id |-> j.run_id[2],
     created_at_epoch |-> j.created_at_epoch[2],
     bundle_key |-> j.bundle_key[2],
     score |-> j.score[2],
     consumed |-> (j.consumed[1] = "true"),
     consumed_at_utc |-> IF j.consumed_at_utc[1] = "absent" THEN None
                         ELSE Some(j.consumed_at_utc[2])]

\* _save: json.dumps(self._data) written to a temporary file and renamed into place.
Document(bundles) ==
    [exists |-> TRUE, form |-> WellFormed, version |-> 1,
     bundles |-> [key \in StoreKeys |->
                     [p \in 1..Len(bundles[key]) |-> JsonOf(bundles[key][p])]]]

\* _load: the parsed document replaces self._data when the file exists, parses
\* to a dict and has a "bundles" entry; otherwise self._data keeps its initial value.
Loaded(document) ==
    IF document.exists /\ document.form = WellFormed
    THEN [key \in StoreKeys |->
             [p \in 1..Len(document.bundles[key]) |-> BundleOf(document.bundles[key][p])]]
    ELSE EmptyBundles

\* What self._data["bundles"] is after _load: the dict of lists of a document
\* _save wrote or of the initial value, or the list or string of a parsed
\* object whose "bundles" is no dict.
ShapeOf(document) ==
    IF ~document.exists THEN "mapping"
    ELSE CASE document.form = "bundles_list" -> "empty_list"
           [] document.form = "bundles_string" -> "string"
           [] OTHER -> "mapping"

RECURSIVE InsertDesc(_, _)
\* Where a stable descending sort puts b, appended last, in a sorted list.
InsertDesc(bundles, b) ==
    IF bundles = <<>> THEN <<b>>
    ELSE IF Head(bundles).created_at_epoch >= b.created_at_epoch
         THEN <<Head(bundles)>> \o InsertDesc(Tail(bundles), b)
         ELSE <<b>> \o bundles

RECURSIVE SortNewestFirst(_)
\* bundles.sort(key=created_at_epoch, reverse=True): stable, equal keys keep their order.
SortNewestFirst(bundles) ==
    IF bundles = <<>> THEN <<>>
    ELSE InsertDesc(SortNewestFirst(SubSeq(bundles, 1, Len(bundles) - 1)), bundles[Len(bundles)])

\* del bundles[max_bundles_per_key:]
Capped(bundles) == SubSeq(bundles, 1, Min2(Len(bundles), MaxBundlesPerKey))

\* A publish_bundle that appends and caps without sorting.
publish_bundle_unsorted(bundles, bundle_key, run_id, created, score) ==
    LET bundle == [run_id |-> run_id,
                   created_at_epoch |-> IF created = None THEN now ELSE created[1],
                   bundle_key |-> bundle_key,
                   score |-> score,
                   consumed |-> FALSE,
                   consumed_at_utc |-> None]
    IN [bundles EXCEPT ![bundle_key] = Capped(Append(@, bundle))]

\* publish_bundle, lines 89-103.  created is None when the caller's bundle has no
\* created_at_epoch: the default is time.time().
publish_bundle(bundles, bundle_key, run_id, created, score) ==
    LET bundle == [run_id |-> run_id,
                   created_at_epoch |-> IF created = None THEN now ELSE created[1],
                   bundle_key |-> bundle_key,
                   score |-> score,
                   consumed |-> FALSE,
                   consumed_at_utc |-> None]
    IN [bundles EXCEPT ![bundle_key] = Capped(SortNewestFirst(Append(@, bundle)))]

\* No thread is waiting.
NoWaiter ==
    [pc |-> "idle", kind |-> "", bundle_key |-> "", run_id |-> "",
     window_start_epoch |-> 0, window_end_epoch |-> 0, include_consumed |-> FALSE,
     max_age_s |-> None, timeout_s |-> 0, deadline |-> 0, checks |-> 0, result |-> None]

LockFreeAlways == TRUE

\* with self._cv / with self._lock: a call enters when no thread holds the lock.
LockFree == lock = "none"

\* self._cv.notify_all(): every thread blocked in self._cv.wait is woken.
NotifyAll(w) == IF w.pc = "waiting" THEN [w EXCEPT !.pc = "woken"] ELSE w

\* The whole of publish_bundle, lines 89-103.  When "bundles" is no dict the
\* setdefault chain of line 97 raises AttributeError.
Publish ==
    /\ LockFree
    /\ savepc = "idle"
    /\ npub < MaxPublishes
    /\ \E bundle_key \in StoreKeys, run_id \in RunIds, score \in 0..MaxScore,
          created \in {None} \cup {Some(t) : t \in 0..MaxTime} :
          /\ ret' = [op |-> "publish_bundle", bundle_key |-> bundle_key, run_id |-> "", arg |-> 0, value |-> None]
          /\ IF shape # "mapping"
             THEN /\ sraised' = "AttributeError"
                  /\ UNCHANGED <<data, disk, waiter>>
             ELSE /\ data' = publish_bundle(data, bundle_key, run_id, created, score)
                  /\ disk' = Document(data')
                  /\ waiter' = NotifyAll(waiter)
                  /\ sraised' = "none"
    /\ npub' = npub + 1
    /\ UNCHANGED <<now, shape, lock, tmp, savepc, selInputs, selState, appVars>>

\* An eligibility test that does not look at the consumed flag.
EligibleAnyConsumed(b, window_start_epoch, window_end_epoch, include_consumed, max_age_s) ==
    /\ ~(b.created_at_epoch < window_start_epoch \/ b.created_at_epoch > window_end_epoch)
    /\ ~(max_age_s # None /\ (now - b.created_at_epoch) > max_age_s[1])

\* An eligibility test whose window excludes its end points.
EligibleStrict(b, window_start_epoch, window_end_epoch, include_consumed, max_age_s) ==
    /\ ~(b.created_at_epoch <= window_start_epoch \/ b.created_at_epoch >= window_end_epoch)
    /\ ~(~include_consumed /\ b.consumed)
    /\ ~(max_age_s # None /\ (now - b.created_at_epoch) > max_age_s[1])

\* Lines 121-129: is b eligible.
Eligible(b, window_start_epoch, window_end_epoch, include_consumed, max_age_s) ==
    /\ ~(b.created_at_epoch < window_start_epoch \/ b.created_at_epoch > window_end_epoch)
    /\ ~(~include_consumed /\ b.consumed)
    /\ ~(max_age_s # None /\ (now - b.created_at_epoch) > max_age_s[1])

RECURSIVE InsertBest(_, _)
\* Where a stable sort by (score, created_at_epoch), reverse=True, puts b.
InsertBest(bundles, b) ==
    IF bundles = <<>> THEN <<b>>
    ELSE IF \/ Head(bundles).score > b.score
            \/ /\ Head(bundles).score = b.score
               /\ Head(bundles).created_at_epoch >= b.created_at_epoch
         THEN <<Head(bundles)>> \o InsertBest(Tail(bundles), b)
         ELSE <<b>> \o bundles

RECURSIVE SortBestFirst(_)
SortBestFirst(bundles) ==
    IF bundles = <<>> THEN <<>>
    ELSE InsertBest(SortBestFirst(SubSeq(bundles, 1, Len(bundles) - 1)), bundles[Len(bundles)])

\* get_best_bundle, lines 117-142.
get_best_bundle(bundles, bundle_key, window_start_epoch, window_end_epoch, include_consumed, max_age_s) ==
    LET eligible == SelectSeq(bundles[bundle_key],
                              LAMBDA b : Eligible(b, window_start_epoch, window_end_epoch,
                                                  include_consumed, max_age_s))
    IN IF eligible = <<>> THEN None ELSE Some(Head(SortBestFirst(eligible)))

\* get_bundle_by_run_id, lines 184-192: the first bundle with the run id decides.
get_bundle_by_run_id(bundles, bundle_key, run_id, include_consumed) ==
    LET hits == SelectSeq(bundles[bundle_key], LAMBDA b : b.run_id = run_id)
    IN IF hits = <<>> THEN None
       ELSE IF ~include_consumed /\ Head(hits).consumed THEN None
       ELSE Some(Head(hits))

RECURSIVE MarkFirstRestamp(_, _)
\* A mark_consumed that stamps consumed_at_utc on every call.
MarkFirstRestamp(bundles, run_id) ==
    IF bundles = <<>> THEN <<>>
    ELSE IF Head(bundles).run_id = run_id
         THEN <<[Head(bundles) EXCEPT !.consumed = TRUE, !.consumed_at_utc = Some(now)]>>
              \o Tail(bundles)
         ELSE <<Head(bundles)>> \o MarkFirstRestamp(Tail(bundles), run_id)

RECURSIVE MarkFirst(_, _)
\* Lines 222-229: the first bundle with the run id is the one marked.
MarkFirst(bundles, run_id) ==
    IF bundles = <<>> THEN <<>>
    ELSE IF Head(bundles).run_id = run_id
         THEN <<IF Head(bundles).consumed THEN Head(bundles)
                ELSE [Head(bundles) EXCEPT !.consumed = TRUE, !.consumed_at_utc = Some(now)]>>
              \o Tail(bundles)
         ELSE <<Head(bundles)>> \o MarkFirst(Tail(bundles), run_id)

\* mark_consumed, lines 220-230: _save and notify_all only when a bundle changed.
\* When "bundles" is no dict the .get of line 221 raises AttributeError.
MarkConsumed ==
    /\ LockFree
    /\ savepc = "idle"
    /\ \E bundle_key \in StoreKeys, run_id \in RunIds :
          IF shape # "mapping"
          THEN /\ sraised' = "AttributeError"
               /\ ret' = [op |-> "mark_consumed", bundle_key |-> bundle_key, run_id |-> run_id,
                          arg |-> 0, value |-> None]
               /\ UNCHANGED <<data, disk, waiter>>
          ELSE /\ data' = [data EXCEPT ![bundle_key] = MarkFirst(@, run_id)]
               /\ disk' = IF data' # data THEN Document(data') ELSE disk
               /\ waiter' = IF data' # data THEN NotifyAll(waiter) ELSE waiter
               /\ sraised' = "none"
               /\ ret' = [op |-> "mark_consumed", bundle_key |-> bundle_key, run_id |-> run_id,
                          arg |-> 0,
                          value |-> Some(\E p \in DOMAIN data[bundle_key] :
                                             data[bundle_key][p].run_id = run_id)]
    /\ UNCHANGED <<now, npub, shape, lock, tmp, savepc, selInputs, selState, appVars>>

\* A cleanup that also drops the records created exactly at the cutoff.
cleanup_strict(bundles, retention_hours) ==
    LET cutoff == now - Max2(0, retention_hours)
    IN [key \in StoreKeys |->
           SelectSeq(bundles[key], LAMBDA b : b.created_at_epoch > cutoff)]

\* cleanup, lines 236-247.
cleanup(bundles, retention_hours) ==
    LET cutoff == now - Max2(0, retention_hours)
    IN [key \in StoreKeys |->
           SelectSeq(bundles[key], LAMBDA b : b.created_at_epoch >= cutoff)]

\* The whole of cleanup.  `self._data.get("bundles", {}) or {}` turns an empty
\* list into {}, and .items() of a string raises AttributeError.
Cleanup ==
    /\ LockFree
    /\ savepc = "idle"
    /\ \E retention_hours \in (-1)..MaxTime :
          /\ ret' = [op |-> "cleanup", bundle_key |-> "", run_id |-> "",
                     arg |-> retention_hours, value |-> None]
          /\ IF shape = "string"
             THEN /\ sraised' = "AttributeError"
                  /\ UNCHANGED <<data, disk, waiter>>
             ELSE /\ data' = cleanup(data, retention_hours)
                  /\ disk' = IF data' # data THEN Document(data') ELSE disk
                  /\ waiter' = IF data' # data THEN NotifyAll(waiter) ELSE waiter
                  /\ sraised' = "none"
    /\ UNCHANGED <<now, npub, shape, lock, tmp, savepc, selInputs, selState, appVars>>

\* The process restarts: DetectionSummaryStore() is constructed again and _load
\* reads the document.
Reload ==
    /\ LockFree
    /\ savepc = "idle"
    /\ data' = Loaded(disk)
    /\ shape' = ShapeOf(disk)
    /\ sraised' = "none"
    /\ ret' = [op |-> "load", bundle_key |-> "", run_id |-> "", arg |-> 0, value |-> None]
    /\ UNCHANGED <<disk, now, npub, lock, waiter, tmp, savepc, selInputs, selState, appVars>>

\* time.time() advances.
Tick ==
    /\ now < MaxTime
    /\ now' = now + 1
    /\ UNCHANGED <<data, disk, npub, ret, shape, sraised, lock, waiter, tmp, savepc,
                   selInputs, selState, appVars>>

StoreNext ==
    \/ Publish
    \/ MarkConsumed
    \/ Cleanup
    \/ Reload
    \/ Tick

---------------------------------------------------------------------------
\* _save step by step, with the process dying between any two steps.

MaxSavePublishes == 2

\* A file that was opened for writing and holds none or only a part of the
\* JSON text: no prefix of the text of an object parses.
PartialDocument ==
    [exists |-> TRUE, form |-> "unparseable", version |-> 1, bundles |-> EmptyBundles]

tmp_is_path == "path"

\* Line 78: the file write_text writes to is path with ".tmp" appended, not path.
tmp_path == "tmp"

\* The caller's part of a mutating call, under the lock, up to its call of
\* _save; a call that changed nothing returns without saving.
SaveBegin(newdata, saves, r) ==
    /\ LockFree
    /\ savepc = "idle"
    /\ shape = "mapping"
    /\ data' = newdata
    /\ ret' = r
    /\ sraised' = "none"
    /\ IF saves
       THEN lock' = "writer" /\ savepc' = "open"
       ELSE UNCHANGED <<lock, savepc>>
    /\ UNCHANGED <<disk, tmp, now, shape, waiter, selInputs, selState, appVars>>

\* publish_bundle lines 89-101.
SavePublish ==
    /\ npub < MaxSavePublishes
    /\ npub' = npub + 1
    /\ \E bundle_key \in StoreKeys, run_id \in RunIds, score \in 0..MaxScore,
          created \in {None} \cup {Some(t) : t \in 0..MaxTime} :
          SaveBegin(publish_bundle(data, bundle_key, run_id, created, score), TRUE,
                    [op |-> "publish_bundle", bundle_key |-> bundle_key, run_id |-> "",
                     arg |-> 0, value |-> None])

\* mark_consumed lines 220-226.
SaveMarkConsumed ==
    /\ UNCHANGED npub
    /\ \E bundle_key \in StoreKeys, run_id \in RunIds :
          LET newdata == [data EXCEPT ![bundle_key] = MarkFirst(@, run_id)]
          IN SaveBegin(newdata, newdata # data,
                       [op |-> "mark_consumed", bundle_key |-> bundle_key, run_id |-> run_id,
                        arg |-> 0,
                        value |-> Some(\E p \in DOMAIN data[bundle_key] :
                                           data[bundle_key][p].run_id = run_id)])

\* cleanup lines 236-245.
SaveCleanup ==
    /\ UNCHANGED npub
    /\ \E retention_hours \in (-1)..MaxTime :
          LET newdata == cleanup(data, retention_hours)
          IN SaveBegin(newdata, newdata # data,
                       [op |-> "cleanup", bundle_key |-> "", run_id |-> "",
                        arg |-> retention_hours, value |-> None])

\* Line 79, first half: write_text opens the file, which empties it, and
\* begins to write.
SaveOpen ==
    /\ savepc = "open"
    /\ savepc' = "write"
    /\ IF tmp_path = "tmp"
       THEN tmp' = PartialDocument /\ UNCHANGED disk
       ELSE disk' = PartialDocument /\ UNCHANGED tmp
    /\ UNCHANGED <<data, now, npub, ret, shape, sraised, lock, waiter, selInputs, selState, appVars>>

\* Line 79, second half: the whole text of self._data is in the file.
SaveWrite ==
    /\ savepc = "write"
    /\ savepc' = "replace"
    /\ IF tmp_path = "tmp"
       THEN tmp' = Document(data) /\ UNCHANGED disk
       ELSE disk' = Document(data) /\ UNCHANGED tmp
    /\ UNCHANGED <<data, now, npub, ret, shape, sraised, lock, waiter, selInputs, selState, appVars>>

\* Line 80, os.replace(tmp, path), then the caller's notify_all and the
\* release of the lock.
SaveReplace ==
    /\ savepc = "replace"
    /\ savepc' = "idle"
    /\ IF tmp_path = "tmp"
       THEN disk' = tmp /\ tmp' = NoDocument
       ELSE UNCHANGED <<disk, tmp>>
    /\ waiter' = NotifyAll(waiter)
    /\ lock' = "none"
    /\ UNCHANGED <<data, now, npub, ret, shape, sraised, selInputs, selState, appVars>>

\* The process dies and is started again: memory is lost, the files stay, and
\* __init__ runs _load over the document at the state path.
Crash ==
    /\ data' = Loaded(disk)
    /\ shape' = ShapeOf(disk)
    /\ lock' = "none"
    /\ savepc' = "idle"
    /\ waiter' = NoWaiter
    /\ sraised' = "none"
    /\ ret' = [op |-> "crash", bundle_key |-> savepc, run_id |-> "", arg |-> 0, value |-> None]
    /\ UNCHANGED <<disk, tmp, now, npub, selInputs, selState, appVars>>

SaveNext ==
    \/ SavePublish
    \/ SaveMarkConsumed
    \/ SaveCleanup
    \/ SaveOpen
    \/ SaveWrite
    \/ SaveReplace
    \/ Crash
    \/ Tick

---------------------------------------------------------------------------
\* wait_for_bundle and wait_for_run_id: one waiting thread, step by step.

MaxWaitPublishes == 2

\* found = self.get_best_bundle(...) or self.get_bundle_by_run_id(...), lines
\* 160-166 and 208.
WaiterQuery(w, bundles) ==
    IF w.kind = "wait_for_bundle"
    THEN get_best_bundle(bundles, w.bundle_key, w.window_start_epoch, w.window_end_epoch,
                         w.include_consumed, w.max_age_s)
    ELSE get_bundle_by_run_id(bundles, w.bundle_key, w.run_id, w.include_consumed)

\* The key the waiting call asks for; a publish under the other key is an
\* event that does not qualify.
WaitKeys == {"garage"}

TimeIsUpAlways(w) == TRUE

\* Lines 169-170 and 211-212: remaining = deadline - time.time(); remaining <= 0.
TimeIsUp(w) == w.deadline - now <= 0

\* Lines 157 and 205: the deadline is taken before the lock; timeouts are
\* drawn so that the deadline is a time the clock reaches.
WaitStart ==
    /\ waiter.pc = "idle"
    /\ \E bundle_key \in WaitKeys, include_consumed \in BOOLEAN,
          timeout_s \in (-1)..(MaxTime - now) :
          \/ \E window_end_epoch \in 0..MaxTime, max_age_s \in {None, Some(0)} :
                waiter' = [NoWaiter EXCEPT !.pc = "enter", !.kind = "wait_for_bundle",
                              !.bundle_key = bundle_key,
                              !.window_end_epoch = window_end_epoch,
                              !.include_consumed = include_consumed,
                              !.max_age_s = max_age_s, !.timeout_s = timeout_s,
                              !.deadline = now + Max2(0, timeout_s)]
          \/ \E run_id \in RunIds :
                waiter' = [NoWaiter EXCEPT !.pc = "enter", !.kind = "wait_for_run_id",
                              !.bundle_key = bundle_key, !.run_id = run_id,
                              !.include_consumed = include_consumed,
                              !.timeout_s = timeout_s,
                              !.deadline = now + Max2(0, timeout_s)]
    /\ UNCHANGED <<data, disk, now, npub, ret, shape, sraised, lock, tmp, savepc,
                   selInputs, selState, appVars>>

\* `with self._cv:` on entry, and the re-acquisition of the lock that ends
\* self._cv.wait.
WaitEnter ==
    /\ waiter.pc \in {"enter", "woken"}
    /\ LockFree
    /\ lock' = "waiter"
    /\ waiter' = [waiter EXCEPT !.pc = "check"]
    /\ UNCHANGED <<data, disk, now, npub, ret, shape, sraised, tmp, savepc,
                   selInputs, selState, appVars>>

\* Lines 160-168 and 208-210: one query under the lock; a record is returned.
WaitCheck ==
    /\ waiter.pc = "check"
    /\ LET found == WaiterQuery(waiter, data)
       IN IF found # None
          THEN /\ waiter' = [waiter EXCEPT !.pc = "done", !.result = found,
                                           !.checks = @ + 1]
               /\ lock' = "none"
          ELSE /\ waiter' = [waiter EXCEPT !.pc = "remaining", !.checks = @ + 1]
               /\ UNCHANGED lock
    /\ UNCHANGED <<data, disk, now, npub, ret, shape, sraised, tmp, savepc,
                   selInputs, selState, appVars>>

\* Lines 169-172 and 211-214: the clock is read again; at or past the deadline
\* the call returns None, else self._cv.wait releases the lock and blocks.
WaitRemaining ==
    /\ waiter.pc = "remaining"
    /\ IF TimeIsUp(waiter)
       THEN waiter' = [waiter EXCEPT !.pc = "done", !.result = None]
       ELSE waiter' = [waiter EXCEPT !.pc = "waiting"]
    /\ lock' = "none"
    /\ UNCHANGED <<data, disk, now, npub, ret, shape, sraised, tmp, savepc,
                   selInputs, selState, appVars>>

\* self._cv.wait(timeout=remaining) ends by itself when the time is up.
WaitTimeout ==
    /\ waiter.pc = "waiting"
    /\ now >= waiter.deadline
    /\ waiter' = [waiter EXCEPT !.pc = "woken"]
    /\ UNCHANGED <<data, disk, now, npub, ret, shape, sraised, lock, tmp, savepc,
                   selInputs, selState, appVars>>

WaiterStep ==
    \/ WaitStart
    \/ WaitEnter
    \/ WaitCheck
    \/ WaitRemaining
    \/ WaitTimeout

\* The store is followed until the waiting call has returned.  Calls of
\* mark_consumed and cleanup that change no record neither save nor notify
\* (lines 224-229 and 245-247) and are left out.
WaitNext ==
    \/ WaiterStep
    \/ waiter.pc # "done" /\ npub < MaxWaitPublishes /\ Publish
    \/ waiter.pc # "done" /\ MarkConsumed /\ data' # data
    \/ waiter.pc # "done" /\ Cleanup /\ data' # data
    \/ waiter.pc # "done" /\ Tick

---------------------------------------------------------------------------
\* Object identity: which dict the store holds and which dicts its callers hold.

MaxAliasPublishes == 2
MaxHeld == 3
MaxMutations == 2

\* heap.ids[key][p] is the identity of the dict at data[key][p]; heap.held are the
\* dicts callers hold, each with its identity and its present content.
EmptyHeap ==
    [ids |-> [key \in StoreKeys |-> <<>>], held |-> {}, next |-> 1, mutations |-> 0]

deepcopy_same_object(obj, fresh) == obj

\* copy.deepcopy: the result is a new object, whatever dict is copied.
deepcopy(obj, fresh) == fresh

\* The list under a key with each dict's identity beside its content.
WithObj(bundles, ids) ==
    [p \in DOMAIN bundles |->
        [run_id |-> bundles[p].run_id, created_at_epoch |-> bundles[p].created_at_epoch,
         bundle_key |-> bundles[p].bundle_key, score |-> bundles[p].score,
         consumed |-> bundles[p].consumed, consumed_at_utc |-> bundles[p].consumed_at_utc,
         obj |-> ids[p]]]

ObjOf(tagged) == [p \in DOMAIN tagged |-> tagged[p].obj]

\* publish_bundle, lines 89-103, by a caller that keeps the dict it passed:
\* line 90 copies the dict, and the copy is what is appended, sorted and kept.
AliasPublish ==
    /\ npub < MaxAliasPublishes
    /\ Cardinality(heap.held) < MaxHeld
    /\ \E bundle_key \in StoreKeys, run_id \in RunIds, score \in 0..MaxScore,
          created \in {None} \cup {Some(t) : t \in 0..MaxTime} :
          LET arg == heap.next
              stored == deepcopy(arg, heap.next + 1)
              bundle == [run_id |-> run_id,
                         created_at_epoch |-> IF created = None THEN now ELSE created[1],
                         bundle_key |-> bundle_key, score |-> score,
                         consumed |-> FALSE, consumed_at_utc |-> None, obj |-> stored]
              tagged == WithObj(data[bundle_key], heap.ids[bundle_key])
          IN /\ data' = publish_bundle(data, bundle_key, run_id, created, score)
             /\ heap' = [heap EXCEPT
                           !.ids[bundle_key] = ObjOf(Capped(SortNewestFirst(Append(tagged, bundle)))),
                           !.held = @ \cup {[obj |-> arg, from |-> "publish_bundle",
                                             run_id |-> run_id, score |-> score,
                                             mutated |-> FALSE]},
                           !.next = @ + 2]
             /\ ret' = [op |-> "publish_bundle", bundle_key |-> bundle_key, run_id |-> "",
                        arg |-> 0, value |-> None]
    /\ disk' = Document(data')
    /\ npub' = npub + 1
    /\ UNCHANGED <<now, shape, sraised, lock, waiter, tmp, savepc, orch, selInputs, selState>>

\* A caller keeps the dict a query returned.
Keep(found, from) ==
    /\ found # None
    /\ Cardinality(heap.held) < MaxHeld
    /\ heap' = [heap EXCEPT
                  !.held = @ \cup {[obj |-> deepcopy(found[1].obj, heap.next), from |-> from,
                                    run_id |-> found[1].run_id, score |-> found[1].score,
                                    mutated |-> FALSE]},
                  !.next = @ + 1]
    /\ ret' = [op |-> from, bundle_key |-> found[1].bundle_key, run_id |-> found[1].run_id,
               arg |-> 0, value |-> None]
    /\ UNCHANGED <<data, disk, now, npub, shape, sraised, lock, waiter, tmp, savepc, orch,
                   selInputs, selState>>

\* get_best_bundle, line 142 (and wait_for_bundle, which returns its result).
AliasGetBest ==
    \E bundle_key \in StoreKeys :
        Keep(get_best_bundle([key \in StoreKeys |-> WithObj(data[key], heap.ids[key])],
                             bundle_key, 0, MaxTime, TRUE, None),
             "get_best_bundle")

\* get_bundle_by_run_id, line 191 (and wait_for_run_id, which returns its result).
AliasGetByRunId ==
    \E bundle_key \in StoreKeys, run_id \in RunIds :
        Keep(get_bundle_by_run_id([key \in StoreKeys |-> WithObj(data[key], heap.ids[key])],
                                  bundle_key, run_id, TRUE),
             "get_bundle_by_run_id")

\* What an assignment to a key of a dict does to a dict: to that object, and
\* to no other.
Assigned(b, obj, target, field, v) ==
    IF obj # target THEN b
    ELSE IF field = "run_id" THEN [b EXCEPT !.run_id = v] ELSE [b EXCEPT !.score = v]

\* A caller assigns to a key of a dict it holds.
CallerMutate ==
    /\ heap.mutations < MaxMutations
    /\ \E h \in heap.held :
          \E field \in {"run_id", "score"} :
          \E v \in IF field = "run_id" THEN RunIds \ {h.run_id} ELSE (0..MaxScore) \ {h.score} :
             /\ heap' = [heap EXCEPT
                           !.held = (@ \ {h}) \cup
                                    {[Assigned(h, h.obj, h.obj, field, v) EXCEPT !.mutated = TRUE]},
                           !.mutations = @ + 1]
             /\ data' = [key \in StoreKeys |->
                            [p \in DOMAIN data[key] |->
                                Assigned(data[key][p], heap.ids[key][p], h.obj, field, v)]]
             /\ ret' = [op |-> "caller", bundle_key |-> "", run_id |-> "", arg |-> 0,
                        value |-> None]
    /\ UNCHANGED <<disk, now, npub, shape, sraised, lock, waiter, tmp, savepc, orch,
                   selInputs, selState>>

AliasNext ==
    \/ AliasPublish
    \/ AliasGetBest
    \/ AliasGetByRunId
    \/ CallerMutate

---------------------------------------------------------------------------
\* One DetectionSummary app (manager.py): trigger, capture ticks, the
\* processing thread and finalize.  AppDaemon runs the callbacks of one app one
\* at a time; each callback is one step.

MaxTriggers == 4
MaxCaptureTicks == 2
CaptureMaxS == 1
OffGraceS == 0
CooldownBackoffMaxS == 2

\* self.bundle_key of the app.
OrchKey == "garage"

\* str(uuid.uuid4()): a run id no earlier run had.
Uuid(k) == <<"r1", "r2", "r3", "r4", "r5">>[k]

\* initialize(), lines 172-176 and 239-242, for a configured cooldown_s and
\* retention_hours.
OrchInit(cooldown_s, retention_hours) ==
    [_in_flight |-> FALSE, _last_run_ts |-> 0, _active |-> None,
     cooldown_s |-> cooldown_s, _effective_cooldown_s |-> cooldown_s,
     retention_hours |-> retention_hours,
     timers |-> {}, workers |-> {}, events |-> <<>>, finalized |-> {},
     files |-> {}, error_only |-> {},
     triggers |-> 0, runs |-> 0, last |-> "initialize"]

NeverBusy(o) == FALSE

\* Line 283: if self._in_flight: return.
Busy(o) == o._in_flight

\* Lines 285: the cooldown after the last run has not passed.
CoolingDown(o) ==
    o._effective_cooldown_s > 0 /\ (now - o._last_run_ts) < o._effective_cooldown_s

\* _on_trigger, lines 281-314.  A trigger that passes the two tests draws a run
\* id and sets _in_flight (lines 288-289); the CaptureState(...) call of lines
\* 291-299 then passes last_motion_state, last_motion_change_ts and
\* motion_on_total_s, which the dataclass of capture.py lines 25-33 does not
\* have, and raises TypeError: _active is not assigned, no event is fired and
\* no capture tick is scheduled.
OnTrigger ==
    /\ orch.triggers < MaxTriggers
    /\ IF Busy(orch) \/ CoolingDown(orch)
       THEN orch' = [orch EXCEPT !.triggers = @ + 1, !.last = "_on_trigger ignored"]
       ELSE orch' = [orch EXCEPT
                       !.triggers = @ + 1,
                       !.runs = @ + 1,
                       !._in_flight = TRUE,
                       !.last = "_on_trigger TypeError"]
    /\ UNCHANGED <<storeVars, heap, selInputs, selState>>

\* capture.py CaptureConfig, lines 16-22, without the two polling intervals.
CaptureConfig(off_grace_s, capture_max_s) ==
    [off_grace_s |-> off_grace_s, capture_max_s |-> capture_max_s]

\* capture.py CaptureState, lines 25-33, as the dataclass constructs it.
CaptureState(run_id, started_ts) ==
    [run_id |-> run_id, started_ts |-> started_ts, frames |-> <<>>, capture_idx |-> 0,
     motion_off_since |-> None, timed_out |-> FALSE, ended_ts |-> None]

\* A should_stop_capture that looks at the motion before it looks at the limit.
should_stop_capture_motion_first(t, cfg, state, motion_is_on) ==
    IF motion_is_on
    THEN [stop |-> FALSE, state |-> [state EXCEPT !.motion_off_since = None]]
    ELSE IF state.motion_off_since = None
    THEN [stop |-> FALSE, state |-> [state EXCEPT !.motion_off_since = Some(t)]]
    ELSE IF cfg.off_grace_s <= 0 \/ (t - state.motion_off_since[1]) >= cfg.off_grace_s
    THEN [stop |-> TRUE, state |-> [state EXCEPT !.ended_ts = Some(t)]]
    ELSE IF cfg.capture_max_s > 0 /\ (t - state.started_ts) >= cfg.capture_max_s
    THEN [stop |-> TRUE, state |-> [state EXCEPT !.timed_out = TRUE, !.ended_ts = Some(t)]]
    ELSE [stop |-> FALSE, state |-> state]

\* A should_stop_capture that keeps motion_off_since when the motion is on again.
should_stop_capture_keeps_off_since(t, cfg, state, motion_is_on) ==
    IF cfg.capture_max_s > 0 /\ (t - state.started_ts) >= cfg.capture_max_s
    THEN [stop |-> TRUE, state |-> [state EXCEPT !.timed_out = TRUE, !.ended_ts = Some(t)]]
    ELSE IF motion_is_on
    THEN [stop |-> FALSE, state |-> state]
    ELSE IF state.motion_off_since = None
    THEN [stop |-> FALSE, state |-> [state EXCEPT !.motion_off_since = Some(t)]]
    ELSE IF cfg.off_grace_s <= 0 \/ (t - state.motion_off_since[1]) >= cfg.off_grace_s
    THEN [stop |-> TRUE, state |-> [state EXCEPT !.ended_ts = Some(t)]]
    ELSE [stop |-> FALSE, state |-> state]

\* capture.py should_stop_capture(now=t, cfg, state, motion_is_on), lines 36-64:
\* the value returned and the state it leaves.
should_stop_capture(t, cfg, state, motion_is_on) ==
    IF cfg.capture_max_s > 0 /\ (t - state.started_ts) >= cfg.capture_max_s
    THEN [stop |-> TRUE, state |-> [state EXCEPT !.timed_out = TRUE, !.ended_ts = Some(t)]]
    ELSE IF motion_is_on
    THEN [stop |-> FALSE, state |-> [state EXCEPT !.motion_off_since = None]]
    ELSE IF state.motion_off_since = None
    THEN [stop |-> FALSE, state |-> [state EXCEPT !.motion_off_since = Some(t)]]
    ELSE IF cfg.off_grace_s <= 0 \/ (t - state.motion_off_since[1]) >= cfg.off_grace_s
    THEN [stop |-> TRUE, state |-> [state EXCEPT !.ended_ts = Some(t)]]
    ELSE [stop |-> FALSE, state |-> state]

\* The CaptureState that _on_trigger, lines 291-299, asks for: the dataclass's
\* fields and last_motion_state, last_motion_change_ts, motion_on_total_s.
TrackedCaptureState(run_id, started_ts) ==
    [run_id |-> run_id, started_ts |-> started_ts, frames |-> <<>>, capture_idx |-> 0,
     motion_off_since |-> None, timed_out |-> FALSE, ended_ts |-> None,
     last_motion_state |-> Some(TRUE), last_motion_change_ts |-> Some(started_ts),
     motion_on_total_s |-> 0]

\* _capture_tick, lines 325-333: the motion-on time up to a change of the
\* motion read at time t.
track_motion(t, state, motion_is_on) ==
    IF state.last_motion_state = None
    THEN [state EXCEPT !.last_motion_state = Some(motion_is_on),
                       !.last_motion_change_ts = Some(t)]
    ELSE IF motion_is_on # state.last_motion_state[1]
    THEN [state EXCEPT
            !.motion_on_total_s =
                IF state.last_motion_state[1] /\ state.last_motion_change_ts # None
                THEN @ + Max2(0, t - state.last_motion_change_ts[1]) ELSE @,
            !.last_motion_state = Some(motion_is_on),
            !.last_motion_change_ts = Some(t)]
    ELSE state

\* _capture_tick, lines 342-346, after should_stop_capture returned True at
\* time t: ended = ended_ts or now, and the motion-on time up to it.  Times
\* are time.time() values, never 0.0, so ended_ts is taken when it is set.
finalize_motion(t, state) ==
    LET ended == IF state.ended_ts = None THEN t ELSE state.ended_ts[1]
    IN IF state.last_motion_state # None /\ state.last_motion_state[1]
          /\ state.last_motion_change_ts # None
       THEN [state EXCEPT
               !.motion_on_total_s = @ + Max2(0, ended - state.last_motion_change_ts[1]),
               !.last_motion_change_ts = Some(ended)]
       ELSE state

\* A frame recorded without advancing capture_idx.
record_frame_same_index(state, i) == [state EXCEPT !.frames = Append(@, i)]

\* _capture_tick, lines 386-387: the frame of index i is appended and
\* capture_idx advanced.  A frame is kept by its idx.
record_frame(state, i) == [state EXCEPT !.frames = Append(@, i), !.capture_idx = @ + 1]

\* manager.py _Run, lines 93-96.
_Run(capture) == [capture |-> capture, bundle |-> None]

\* Lines 317-319 and 625-627: the callback's run id is not the active run's.
IsStale(o, run_id) ==
    IF o._active = None THEN TRUE ELSE run_id # o._active[1].capture.run_id

\* A tick that schedules the next one whether or not the capture stopped.
after_tick_reschedules(rest, t, stop) == rest \cup {t}

\* The scheduled calls after a call t of _capture_tick: the tick that stops
\* returns at line 356; any other calls run_in(self._capture_tick, ...) for the
\* same run (lines 389-390).
after_tick(rest, t, stop) == IF stop THEN rest ELSE rest \cup {t}

\* _capture_tick, lines 316-390, for one scheduled call of it.  The motion
\* sensor is read; it reads off once MaxCaptureTicks frames are recorded.  The
\* motion-on time is brought up to date before and after should_stop_capture.  On a
\* tick that goes on with motion on, camera/snapshot is called and may raise
\* (files holds the indices whose file the camera wrote); the except clause of
\* lines 380-384 logs, and lines 386-387 run in either case.
CaptureTick ==
    /\ \E t \in orch.timers :
          /\ t.callback = "_capture_tick"
          /\ LET rest == orch.timers \ {t}
             IN IF IsStale(orch, t.run_id)
                THEN orch' = [orch EXCEPT !.timers = rest, !.last = "_capture_tick stale"]
                ELSE \E motion_is_on \in IF orch._active[1].capture.capture_idx < MaxCaptureTicks
                                          THEN BOOLEAN ELSE {FALSE} :
                     \E snapshot_ok \in BOOLEAN :
                        LET active == orch._active[1]
                            r == should_stop_capture(now, CaptureConfig(OffGraceS, CaptureMaxS),
                                                     track_motion(now, active.capture, motion_is_on),
                                                     motion_is_on)
                            i == active.capture.capture_idx
                        IN IF r.stop
                           THEN /\ snapshot_ok
                                /\ orch' = [orch EXCEPT
                                              !._active = Some([active EXCEPT !.capture =
                                                                   finalize_motion(now, r.state)]),
                                              !.events = Append(@, [event |-> "run_capture_done",
                                                                    run_id |-> t.run_id]),
                                              !.workers = @ \cup {t.run_id},
                                              !.timers = after_tick(rest, t, r.stop),
                                              !.last = "_capture_tick done"]
                           ELSE IF motion_is_on
                           THEN orch' = [orch EXCEPT
                                           !._active = Some([active EXCEPT !.capture =
                                                                record_frame(r.state, i)]),
                                           !.files = IF snapshot_ok THEN @ \cup {<<t.run_id, i>>} ELSE @,
                                           !.timers = after_tick(rest, t, r.stop),
                                           !.last = IF snapshot_ok THEN "_capture_tick snapshot"
                                                    ELSE "_capture_tick snapshot failed"]
                           ELSE /\ snapshot_ok
                                /\ orch' = [orch EXCEPT
                                              !._active = Some([active EXCEPT !.capture = r.state]),
                                              !.timers = after_tick(rest, t, r.stop),
                                              !.last = "_capture_tick"]
    /\ UNCHANGED <<storeVars, heap, selInputs, selState>>

\* _process_background, lines 407-414, on the processing thread: the bundle
\* is built, or _build_bundle raised and the bundle holds run_id, bundle_key
\* and error only; either way _finalize is scheduled.  With no frame captured
\* adaptive_select_and_score(total_frames=0, ...) raises ValueError (line 515,
\* selection.py line 127); with frames, _build_bundle may still raise outside
\* score_one (line 433, the file copies).
ProcessBackground ==
    /\ \E run_id \in orch.workers :
       \E built \in BOOLEAN, score \in 0..MaxScore :
          LET bundle == IF built THEN [created |-> Some(now), score |-> score, best |-> TRUE]
                        ELSE [created |-> None, score |-> 0, best |-> FALSE]
          IN /\ ~built => score = 0
             /\ (orch._active # None /\ orch._active[1].capture.run_id = run_id
                    /\ orch._active[1].capture.capture_idx = 0) => ~built
             /\ orch' = [orch EXCEPT
                           !._active = IF @ # None /\ @[1].capture.run_id = run_id
                                       THEN Some([@[1] EXCEPT !.bundle = Some(bundle)])
                                       ELSE @,
                           !.workers = @ \ {run_id},
                           !.timers = @ \cup {[callback |-> "_finalize", run_id |-> run_id]},
                           !.last = "_process_background"]
    /\ UNCHANGED <<storeVars, heap, selInputs, selState>>

\* Lines 683-689: the cooldown doubles after a capture that timed out.
NextCooldown(o, timed_out) ==
    IF timed_out
    THEN Min2(CooldownBackoffMaxS, Max2(o.cooldown_s, o._effective_cooldown_s * 2))
    ELSE o.cooldown_s

\* _finalize, lines 624-700, for one scheduled call of it: the bundle is
\* published to the store, the store is cleaned up, and the finally block
\* clears the run.
Finalize ==
    /\ LockFree
    /\ savepc = "idle"
    /\ \E t \in orch.timers :
          /\ t.callback = "_finalize"
          /\ LET rest == orch.timers \ {t}
             IN IF IsStale(orch, t.run_id)
                THEN /\ orch' = [orch EXCEPT !.timers = rest, !.last = "_finalize stale"]
                     /\ UNCHANGED <<data, disk, waiter, ret, npub>>
                ELSE LET active == orch._active[1]
                         bundle == active.bundle[1]
                         published == publish_bundle(data, OrchKey, active.capture.run_id,
                                                     bundle.created, bundle.score)
                     IN /\ data' = cleanup(published, orch.retention_hours)
                        /\ disk' = Document(data')
                        /\ waiter' = NotifyAll(waiter)
                        /\ npub' = npub + 1
                        /\ ret' = [op |-> "cleanup", bundle_key |-> "", run_id |-> "",
                                   arg |-> orch.retention_hours, value |-> None]
                        /\ orch' = [orch EXCEPT
                                      !.events = Append(@, [event |-> "run_published",
                                                            run_id |-> active.capture.run_id]),
                                      !._effective_cooldown_s =
                                          NextCooldown(orch, active.capture.timed_out),
                                      !._last_run_ts = active.capture.started_ts,
                                      !._in_flight = FALSE,
                                      !._active = None,
                                      !.finalized = @ \cup {active.capture.run_id},
                                      !.error_only = IF bundle.best THEN @
                                                     ELSE @ \cup {active.capture.run_id},
                                      !.timers = rest,
                                      !.last = "_finalize"]
    /\ UNCHANGED <<now, shape, sraised, lock, tmp, savepc, heap, selInputs, selState>>

\* _capture_tick or _finalize called with the run id of a run that is not the
\* active one: both return at once (lines 317-319 and 625-627).
ForeignCallback ==
    /\ \E callback \in {"_capture_tick", "_finalize"}, k \in 2..3 :
          /\ IsStale(orch, Uuid(k))
          /\ orch' = [orch EXCEPT !.last = IF callback = "_finalize" THEN "_finalize stale"
                                            ELSE "_capture_tick stale"]
    /\ UNCHANGED <<storeVars, heap, selInputs, selState>>

SessionNext ==
    \/ OnTrigger
    \/ CaptureTick
    \/ ProcessBackground
    \/ Finalize
    \/ ForeignCallback
    \/ Tick

---------------------------------------------------------------------------
\* Initial states.

Modes == {"index", "batch", "manager"}

SelStart ==
    /\ scored = <<>>
    /\ probes = <<>>
    /\ calls = <<>>
    /\ pc = "start"
    /\ raised = "none"
    /\ loc = LocInit
    /\ meta = NoMeta

\* The store after construction with no document at state_path.
StoreIdle ==
    /\ data = EmptyBundles
    /\ disk = NoDocument
    /\ now = 0
    /\ npub = 0
    /\ ret = [op |-> "init", bundle_key |-> "", run_id |-> "", arg |-> 0, value |-> None]
    /\ shape = "mapping"
    /\ sraised = "none"
    /\ lock = "none"
    /\ waiter = NoWaiter
    /\ tmp = NoDocument
    /\ savepc = "idle"

\* No caller holds a dict, and the app is initialized and idle.
AppIdle ==
    /\ heap = EmptyHeap
    /\ orch = OrchInit(0, MaxTime)

\* Every call with few frames, a small budget and any provider behaviour.
Init ==
    /\ total_frames \in 0..MaxFrames
    /\ budget_arg \in (-1)..MaxBudget
    /\ mode \in Modes
    /\ provider \in [0..(total_frames - 1) -> Outcomes]
    /\ SelStart
    /\ StoreIdle
    /\ AppIdle

Next == SelNext

Spec == Init /\ [][Next]_vars


---------------------------------------------------------------------------
\* The call of test_adaptive_selection_prefers_face_and_stops_after_no_people_cutoff.

TestFrames == 12
TestBudget == 9
MaxTestFailures == 1

\* The test's score(i).
TestScore(i) ==
    LET person == IF 2 <= i /\ i <= 6 THEN 9 ELSE 0
        face == IF i = 4 THEN 10 ELSE IF i = 5 THEN 5 ELSE 0
        frame == IF i \in {4, 5} THEN 8 ELSE IF person # 0 THEN 3 ELSE 0
        pose == IF i \in {4, 5} THEN "standing" ELSE IF person # 0 THEN "walking" ELSE "none"
    IN ScoreResult(person, face, frame, pose, "idx")

\* The test's call, and the same call with the scorer given as a batch scorer,
\* with the budget raised to the frame count, and with a provider that fails on
\* up to MaxTestFailures frames.
TestInit ==
    /\ total_frames = TestFrames
    /\ budget_arg \in {TestBudget, TestFrames}
    /\ mode \in {"index", "batch"}
    /\ \E failing \in {F \in SUBSET (0..(TestFrames - 1)) : Cardinality(F) <= MaxTestFailures} :
          provider = [i \in 0..(TestFrames - 1) |->
                         IF i \in failing THEN [ok |-> FALSE, res |-> Placeholder]
                         ELSE [ok |-> TRUE, res |-> TestScore(i)]]
    /\ SelStart
    /\ StoreIdle
    /\ AppIdle

SpecTest == TestInit /\ [][Next]_vars


---------------------------------------------------------------------------
\* The store alone: the selection engine is not running.

SelIdle ==
    /\ total_frames = 0
    /\ budget_arg = 1
    /\ mode = "index"
    /\ provider = <<>>
    /\ SelStart

StoreInit ==
    /\ SelIdle
    /\ StoreIdle
    /\ AppIdle

SpecStore == StoreInit /\ [][StoreNext]_vars

\* The store constructed over a document that some other writer left at the
\* state path: __init__ runs _load over it.
MalformedDocument(form) ==
    [exists |-> TRUE, form |-> form, version |-> 1, bundles |-> EmptyBundles]

LoadInit ==
    /\ SelIdle
    /\ \E form \in MalformedForms : disk = MalformedDocument(form)
    /\ data = Loaded(disk)
    /\ shape = ShapeOf(disk)
    /\ now = 0
    /\ npub = 0
    /\ ret = [op |-> "init", bundle_key |-> "", run_id |-> "", arg |-> 0, value |-> None]
    /\ sraised = "none"
    /\ lock = "none"
    /\ waiter = NoWaiter
    /\ tmp = NoDocument
    /\ savepc = "idle"
    /\ AppIdle

SpecLoad == LoadInit /\ [][StoreNext]_vars

SpecSave == StoreInit /\ [][SaveNext]_vars

SpecWait == StoreInit /\ [][WaitNext]_vars

\* The waiting thread is scheduled, and time passes.
SpecWaitFair == SpecWait /\ WF_vars(WaiterStep) /\ WF_vars(Tick)

SpecAlias == StoreInit /\ [][AliasNext]_vars

\* The app over an empty store, for each configured cooldown_s and
\* retention_hours: as initialize() leaves it, or with a run in place for the
\* callbacks to work on.  No call of _on_trigger leaves the second state (its
\* CaptureState(...) raises); it is the one lines 289-314 are written to leave:
\* _in_flight set, _active a _Run over a CaptureState of the run id that also
\* carries the attributes lines 326-333 read, run_started fired and the first
\* _capture_tick scheduled.
SessionInit ==
    /\ SelIdle
    /\ StoreIdle
    /\ heap = EmptyHeap
    /\ \E cooldown_s \in {0, 1, CooldownBackoffMaxS + 1}, retention_hours \in {0, MaxTime},
          running \in BOOLEAN :
          orch = IF ~running THEN OrchInit(cooldown_s, retention_hours)
                 ELSE [OrchInit(cooldown_s, retention_hours) EXCEPT
                          !.runs = 1,
                          !._in_flight = TRUE,
                          !._active = Some(_Run(TrackedCaptureState(Uuid(1), now))),
                          !.events = <<[event |-> "run_started", run_id |-> Uuid(1)]>>,
                          !.timers = {[callback |-> "_capture_tick", run_id |-> Uuid(1)]}]

SpecSession == SessionInit /\ [][SessionNext]_vars

---------------------------------------------------------------------------
\* Properties of adaptive_select_and_score.

\* The lowest scored index whose _pick_key is maximal over the scored map.
LowestArgmax(sc) ==
    LET top == {i \in Keys(sc) :
                   \A j \in Keys(sc) : KeyGE(_pick_key(Get(sc, i)), _pick_key(Get(sc, j)))}
    IN CHOOSE i \in top : \A j \in top : i <= j

\* The scorer has a result for every index it is asked for.
ScorerTotal == mode = "manager" \/ \A i \in DOMAIN provider : provider[i].ok

AllOk == \A i \in DOMAIN provider : provider[i].ok

NoRepeats(seq) == \A p, q \in DOMAIN seq : seq[p] = seq[q] => p = q

\* C1: for total_frames >= 1 and budget >= 1, with any draws and any scorer that
\* answers only for the indices it was asked for, the scored map never holds more
\* than budget entries, at any point of the run and on return.
C1_ScoredWithinBudget ==
    (total_frames >= 1 /\ budget_arg >= 1) => Len(scored) <= budget_arg

\* The seeds outnumber the budget and the run returned with the budget spent.
C1_Witness ==
    /\ pc = "done"
    /\ budget_arg = 2
    /\ total_frames >= 3
    /\ Len(scored) = budget_arg
    /\ Len(probes) = budget_arg

\* C2: on every return best_idx is a scored index of maximal key, and the lowest
\* index among those that share the maximal key, whatever the order in which the
\* indices were probed or the batch results were merged.
C2_BestIsLowestMaximal ==
    pc = "done" => meta.best_idx = LowestArgmax(scored)

\* C3: when total_frames <= budget the scorer is invoked exactly once for each
\* index 0..total_frames-1, in order and never twice; the scored map holds exactly
\* those indices when the scorer has a result for each; and best_idx is the
\* lowest index of maximal key.
C3_SmallRunScoresAll ==
    total_frames <= budget =>
        /\ NoRepeats(calls)
        /\ pc = "done" =>
              /\ calls = [p \in 1..total_frames |-> p - 1]
              /\ ScorerTotal => (Keys(scored) = 0..(total_frames - 1)
                                 /\ Len(scored) = total_frames)
              /\ meta.best_idx = LowestArgmax(scored)
              /\ meta.cutoff_idx_inclusive = total_frames - 1

\* A small run that returned with several frames sharing the maximal key.
C3_Witness ==
    /\ pc = "done"
    /\ total_frames >= 3
    /\ total_frames <= budget_arg
    /\ Len(scored) = total_frames
    /\ meta.best_idx = 1
    /\ \E j \in Keys(scored) :
          j > 1 /\ _pick_key(Get(scored, j)) = _pick_key(Get(scored, 1))

\* C4: a call with total_frames = 0 does not raise, and returns a scored map
\* holding one placeholder entry that best_idx names.
C4_EmptyRunReturnsPlaceholder ==
    total_frames = 0 =>
        /\ raised = "none"
        /\ pc = "done" => (Len(scored) = 1 /\ meta.best_idx = scored[1].idx)

\* C5: for total_frames >= 1 and budget >= 1 no error leaves the function, even
\* when the single-index scorer raises or the batch scorer has no result for
\* some or all of the indices.
C5_NeverRaises ==
    (total_frames >= 1 /\ budget_arg >= 1) => raised = "none"

C7_TestLandscape ==
    (pc = "done" /\ budget_arg = TestBudget /\ AllOk) =>
        (meta.best_idx = 4 /\ meta.cutoff_idx_inclusive <= 7)

\* The test's own call has returned.
C7_Witness ==
    /\ pc = "done"
    /\ budget_arg = TestBudget
    /\ mode = "index"
    /\ AllOk
    /\ meta.best_idx = 4
    /\ meta.cutoff_idx_inclusive = 6
    /\ Len(scored) = TestBudget

---------------------------------------------------------------------------
\* Properties of DetectionSummaryStore.

\* C9: after any sequence of publish_bundle, mark_consumed, cleanup and reloads,
\* each key's list is in non-increasing order of created_at_epoch and no longer
\* than max_bundles_per_key.
C9_SortedAndCapped ==
    \A key \in StoreKeys :
        /\ Len(data[key]) <= MaxBundlesPerKey
        /\ \A p \in 1..(Len(data[key]) - 1) :
              data[key][p].created_at_epoch >= data[key][p + 1].created_at_epoch

\* More bundles were published under one key than the cap keeps, the list is
\* full, with distinct times, and the store has been reloaded from the document.
C9_Witness ==
    /\ ret.op = "load"
    /\ npub > MaxBundlesPerKey
    /\ \E key \in StoreKeys :
          /\ Len(data[key]) = MaxBundlesPerKey
          /\ data[key][1].created_at_epoch > data[key][MaxBundlesPerKey].created_at_epoch
          /\ \A other \in StoreKeys \ {key} : data[other] = <<>> /\ disk.bundles[other] = <<>>

\* The eligibility of a record as the contract words it.
InWindowAndFresh(b, ws, we, include_consumed, max_age_s) ==
    /\ ws <= b.created_at_epoch
    /\ b.created_at_epoch <= we
    /\ (include_consumed \/ ~b.consumed)
    /\ (max_age_s = None \/ now - b.created_at_epoch <= max_age_s[1])

QueryTimes == 0..MaxTime

QueryAges == {None} \cup {Some(t) : t \in 0..MaxTime}

\* C10: get_best_bundle returns None exactly when no record under the key is
\* eligible; otherwise an eligible record of that key whose score is maximal
\* among the eligible ones and, among those of equal score, whose created_at_epoch
\* is the newest; never a record of another key.
C10_BestEligible ==
    \A key \in StoreKeys, ws \in QueryTimes, we \in QueryTimes,
       include_consumed \in BOOLEAN, max_age_s \in QueryAges :
        LET found == get_best_bundle(data, key, ws, we, include_consumed, max_age_s)
            E == {p \in DOMAIN data[key] :
                     InWindowAndFresh(data[key][p], ws, we, include_consumed, max_age_s)}
        IN /\ (found = None) <=> (E = {})
           /\ found # None =>
                 /\ \E p \in E : data[key][p] = found[1]
                 /\ \A q \in E :
                       \/ data[key][q].score < found[1].score
                       \/ /\ data[key][q].score = found[1].score
                          /\ data[key][q].created_at_epoch <= found[1].created_at_epoch
                 /\ found[1].bundle_key = key
                 /\ \A other \in StoreKeys \ {key} :
                       \A p \in DOMAIN data[other] : data[other][p] # found[1]

\* One key's best record is not the newest one, and another key holds a record
\* but has none to return because it is consumed.
C10_Witness ==
    /\ Len(data["garage"]) = 2
    /\ data["garage"][1].created_at_epoch > data["garage"][2].created_at_epoch
    /\ get_best_bundle(data, "garage", 0, MaxTime, FALSE, None) = Some(data["garage"][2])
    /\ Len(data["porch"]) = 1
    /\ get_best_bundle(data, "porch", 0, MaxTime, FALSE, None) = None
    /\ get_best_bundle(data, "porch", 0, MaxTime, TRUE, None) = Some(data["porch"][1])

\* The positions of the records with a run id.
WithRunId(bundles, run_id) == {p \in DOMAIN bundles : bundles[p].run_id = run_id}

FirstOf(S) == CHOOSE p \in S : \A q \in S : p <= q

RemoveAt(seq, i) == SubSeq(seq, 1, i - 1) \o SubSeq(seq, i + 1, Len(seq))

IsPrefix(a, b) == Len(a) <= Len(b) /\ SubSeq(b, 1, Len(a)) = a

\* A step of mark_consumed: ret' names the call, the clock stands still.
MarkStep == ret'.op = "mark_consumed" /\ now' = now

\* What a mark_consumed step does to the store and what it returns.
MarkStepEffect ==
    LET key == ret'.bundle_key
        hits == WithRunId(data[key], ret'.run_id)
    IN /\ ret'.value = Some(hits # {})
       /\ \A other \in StoreKeys \ {key} : data'[other] = data[other]
       /\ hits = {} => (data' = data /\ disk' = disk)
       /\ hits # {} =>
             LET f == FirstOf(hits)
             IN /\ Len(data'[key]) = Len(data[key])
                /\ \A p \in DOMAIN data[key] : p # f => data'[key][p] = data[key][p]
                /\ data[key][f].consumed => (data' = data /\ disk' = disk)
                /\ ~data[key][f].consumed =>
                      /\ data'[key][f] = [data[key][f] EXCEPT !.consumed = TRUE,
                                                              !.consumed_at_utc = Some(now)]
                      /\ disk' = Document(data')

\* What any step may do to one key's list: nothing; or change records in place,
\* a consumed record not at all and an unconsumed one only by consuming it; or
\* insert one unconsumed record and drop the tail; or drop the records older
\* than some time.
ConsumedKept(key) ==
    \/ data'[key] = data[key]
    \/ /\ Len(data'[key]) = Len(data[key])
       /\ \A p \in DOMAIN data[key] :
             \/ data'[key][p] = data[key][p]
             \/ /\ ~data[key][p].consumed
                /\ data'[key][p].consumed
                /\ data'[key][p].consumed_at_utc # None
                /\ [data'[key][p] EXCEPT !.consumed = FALSE, !.consumed_at_utc = None]
                      = data[key][p]
    \/ \E ins \in DOMAIN data'[key] :
          /\ ~data'[key][ins].consumed
          /\ IsPrefix(RemoveAt(data'[key], ins), data[key])
    \/ \E c \in (-1)..(MaxTime + 1) :
          data'[key] = SelectSeq(data[key], LAMBDA b : b.created_at_epoch >= c)

---------------------------------------------------------------------------
\* Properties of wait_for_bundle and wait_for_run_id.

\* The step at which the waiting call returns.
ReturnStep == waiter.pc # "done" /\ waiter'.pc = "done"

\* C11: no interleaving of publish_bundle with a waiting call loses the wakeup:
\* the waiter is never blocked in self._cv.wait while a record that qualifies for
\* it is in the store, a publish that puts one there while it is blocked wakes
\* it, and the call returns what the query finds at its last check, so None only
\* when nothing qualifies.
C11_NoLostWakeup ==
    [][/\ waiter'.pc = "waiting" => WaiterQuery(waiter', data') = None
       /\ (waiter.pc = "waiting" /\ WaiterQuery(waiter, data') # None) => waiter'.pc = "woken"
       /\ ReturnStep => waiter'.result = WaiterQuery(waiter, data)]_vars

\* A waiter that had found nothing and blocked was woken by a publish and
\* returned the record before its deadline.
C11_Witness ==
    /\ waiter.pc = "done"
    /\ waiter.checks >= 2
    /\ waiter.result # None
    /\ now < waiter.deadline
    /\ ret.op = "publish_bundle"

ReturnedNone == ReturnStep /\ waiter'.result = None

\* The waiter read the clock before its deadline after a check that found nothing.
LeftRemainingEarly ==
    waiter.pc = "remaining" /\ waiter'.pc # "remaining" /\ now < waiter.deadline

\* C12: while nothing qualifies, a waiting call returns None only at or after
\* its deadline; woken before the deadline by an event that does not qualify it
\* checks again and blocks again; with timeout_s <= 0 it returns after exactly
\* one check; and once started it does return.
C12_TimeoutNotEarly ==
    /\ [][/\ ReturnedNone => (now >= waiter.deadline /\ WaiterQuery(waiter, data) = None)
          /\ (ReturnStep /\ waiter.timeout_s <= 0) => waiter'.checks = 1
          /\ LeftRemainingEarly => waiter'.pc = "waiting"]_vars
    /\ (waiter.pc = "enter") ~> (waiter.pc = "done")

\* A waiter was woken before its deadline by a publish that did not qualify,
\* checked again, blocked again, and returned None when the time was up.
C12_Witness ==
    /\ waiter.pc = "done"
    /\ waiter.result = None
    /\ waiter.checks >= 3
    /\ waiter.timeout_s > 0
    /\ now >= waiter.deadline

\* C13: mark_consumed returns whether the run id was found; the first call on a
\* run id sets consumed and stamps consumed_at_utc of the first record with that
\* id, every later call changes nothing, a call for an unknown id changes nothing;
\* and no store operation turns a consumed record back or alters it.
C13_MarkConsumedIdempotent ==
    [][(MarkStep => MarkStepEffect) /\ (\A key \in StoreKeys : ConsumedKept(key))]_vars

\* mark_consumed has returned true for a run id whose record was consumed at an
\* earlier time, and its stamp is the earlier time.
C13_Witness ==
    /\ ret.op = "mark_consumed"
    /\ ret.value = Some(TRUE)
    /\ now > 0
    /\ LET hits == WithRunId(data[ret.bundle_key], ret.run_id)
       IN /\ hits # {}
          /\ data[ret.bundle_key][FirstOf(hits)].consumed
          /\ data[ret.bundle_key][FirstOf(hits)].consumed_at_utc = Some(0)

\* The store without its consumed records.
Unconsumed(bundles) ==
    [key \in StoreKeys |-> SelectSeq(bundles[key], LAMBDA b : ~b.consumed)]

\* Is record a at least as good as record b in get_best_bundle's order.
AtLeastAsGood(a, b) ==
    \/ a.score > b.score
    \/ a.score = b.score /\ a.created_at_epoch >= b.created_at_epoch

\* C14: no query with include_consumed = false returns a consumed record; once
\* mark_consumed(key, id) has returned true, get_bundle_by_run_id(key, id) gives
\* None by default and the marked record with include_consumed = true, the window
\* query gives by default the best of the unconsumed records, and with
\* include_consumed = true the marked record still competes for the best.
C14_ConsumedExcludedByDefault ==
    /\ \A key \in StoreKeys, ws \in QueryTimes, we \in QueryTimes, max_age_s \in QueryAges :
          LET found == get_best_bundle(data, key, ws, we, FALSE, max_age_s)
          IN /\ found # None => ~found[1].consumed
             /\ found = get_best_bundle(Unconsumed(data), key, ws, we, TRUE, max_age_s)
    /\ \A key \in StoreKeys, rid \in RunIds :
          LET found == get_bundle_by_run_id(data, key, rid, FALSE)
          IN found # None => (~found[1].consumed /\ found[1].run_id = rid)
    /\ (ret.op = "mark_consumed" /\ ret.value = Some(TRUE)) =>
          LET key == ret.bundle_key
              marked == data[key][FirstOf(WithRunId(data[key], ret.run_id))]
          IN /\ marked.consumed
             /\ get_bundle_by_run_id(data, key, ret.run_id, FALSE) = None
             /\ get_bundle_by_run_id(data, key, ret.run_id, TRUE) = Some(marked)
             /\ \A ws \in QueryTimes, we \in QueryTimes, max_age_s \in QueryAges :
                   /\ get_best_bundle(data, key, ws, we, FALSE, max_age_s) # Some(marked)
                   /\ InWindowAndFresh(marked, ws, we, TRUE, max_age_s) =>
                         LET found == get_best_bundle(data, key, ws, we, TRUE, max_age_s)
                         IN found # None /\ AtLeastAsGood(found[1], marked)

\* The test's scenario: a and b are published, b the better one; b is marked
\* consumed; the default query gives a, the query with include_consumed gives b.
C14_Witness ==
    /\ ret.op = "mark_consumed"
    /\ ret.value = Some(TRUE)
    /\ ret.bundle_key = "garage"
    /\ ret.run_id = "b"
    /\ Len(data["garage"]) = 2
    /\ LET default == get_best_bundle(data, "garage", 0, MaxTime, FALSE, None)
           including == get_best_bundle(data, "garage", 0, MaxTime, TRUE, None)
       IN /\ default # None
          /\ default[1].run_id = "a"
          /\ including # None
          /\ including[1].run_id = "b"
          /\ including[1].consumed
          /\ including[1].score > default[1].score

\* A step of cleanup: ret' names the call and its retention_hours.
CleanupStep == ret'.op = "cleanup" /\ now' = now

\* Every record a query on the store can return.
Retrievable(bundles) ==
    {get_best_bundle(bundles, key, ws, we, ic, max_age_s) :
        key \in StoreKeys, ws \in QueryTimes, we \in QueryTimes, ic \in BOOLEAN,
        max_age_s \in QueryAges}
    \cup {get_bundle_by_run_id(bundles, key, rid, ic) :
            key \in StoreKeys, rid \in RunIds, ic \in BOOLEAN}

\* What a cleanup step with retention_hours >= 0 leaves.
CleanupEffect ==
    LET cutoff == now - ret'.arg
    IN /\ \A key \in StoreKeys :
             data'[key] = SelectSeq(data[key], LAMBDA b : b.created_at_epoch >= cutoff)
       /\ \A found \in Retrievable(data') :
             found # None => found[1].created_at_epoch >= cutoff
       /\ Loaded(disk') = data'

C16_DocumentReflectsStore ==
    \A key \in StoreKeys :
        LET fresh == Loaded(disk)[key]
        IN /\ Len(fresh) = Len(data[key])
           /\ \A p \in DOMAIN fresh :
                 /\ fresh[p].run_id = data[key][p].run_id
                 /\ fresh[p].score = data[key][p].score
                 /\ fresh[p].consumed = data[key][p].consumed
                 /\ fresh[p] = data[key][p]

\* All publishes are done, both keys hold records, one of them consumed, and the
\* document has been written.
C16_Witness ==
    /\ npub = MaxPublishes
    /\ disk.exists
    /\ \A key \in StoreKeys : data[key] # <<>>
    /\ \E key \in StoreKeys :
          /\ Len(data[key]) = 2
          /\ data[key][2].consumed
          /\ ~data[key][1].consumed
    /\ Loaded(disk) = data

\* C18: a store constructed over a malformed document (unparseable, not an
\* object, without a bundles entry, or with a bundles entry that is no mapping
\* from keys to lists) works as an empty store: no later publish_bundle,
\* mark_consumed or cleanup raises.  Refuted: a parsed object whose "bundles" is
\* a list or a string is taken as self._data, and the calls raise
\* AttributeError.
C18_MalformedWorksAsEmpty == sraised = "none"

\* C17: whatever step of _save the process dies at, the document at the state
\* path is the complete content persisted before or the complete new content:
\* every step leaves the document alone or puts the whole text of the store in
\* its place, the document is never a partial one, between calls it decodes to
\* the store, and the store a restarted process loads is what the document holds.
C17_SaveIsAtomic ==
    [][/\ disk' = disk \/ disk' = Document(data)
       /\ disk'.exists => disk'.form = WellFormed
       /\ savepc' = "idle" => Loaded(disk') = data']_vars

\* The process died while the temporary file was half written, after an earlier
\* save had completed: the document still holds the earlier content.
C17_Witness ==
    /\ ret.op = "crash"
    /\ ret.bundle_key = "write"
    /\ tmp = PartialDocument
    /\ disk.exists
    /\ \E key \in StoreKeys : disk.bundles[key] # <<>>

---------------------------------------------------------------------------
\* Isolation of the store from its callers.

\* A caller assigned to a key of a dict it holds.
CallerMutateStep == heap'.mutations = heap.mutations + 1

\* C19: the store's content is isolated from its callers: no dict a caller holds,
\* whether it passed it to publish_bundle or got it from a query, is a dict the
\* store holds, so an assignment to it changes neither the store's content nor
\* the document, and every later query, which reads only the store's content,
\* answers as before.
C19_CallerCannotReachStore ==
    /\ [][CallerMutateStep => (data' = data /\ disk' = disk)]_vars
    /\ [](\A h \in heap.held : \A key \in StoreKeys : \A p \in DOMAIN heap.ids[key] :
             heap.ids[key][p] # h.obj)

\* A caller changed the dict it had published and another changed a dict a
\* query had returned, while the store holds the record as published.
C19_Witness ==
    /\ \E h \in heap.held : h.from = "publish_bundle" /\ h.mutated
    /\ \E h \in heap.held : h.from # "publish_bundle" /\ h.mutated
    /\ \E key \in StoreKeys : data[key] # <<>>

---------------------------------------------------------------------------
\* Sessions of one DetectionSummary app.

\* The runs that were started and whose _finalize has not run.
ActiveRuns ==
    {orch.events[i].run_id : i \in {j \in DOMAIN orch.events :
                                        orch.events[j].event = "run_started"}} \ orch.finalized

\* A call of _on_trigger.
TriggerStep == orch'.triggers = orch.triggers + 1

\* C20: one app has at most one active session at any time, every scheduled
\* capture tick, processing thread and finalize belongs to it, and from the
\* moment a trigger is accepted (_in_flight set) until _finalize has run, a
\* further trigger changes nothing: no run id is drawn, no session is created,
\* no capture tick is scheduled, no event is fired, and nothing is queued to
\* start later.
C20_AtMostOneSession ==
    /\ [](/\ Cardinality(ActiveRuns) <= 1
          /\ ActiveRuns # {} => orch._in_flight
          /\ orch._active # None => ActiveRuns = {orch._active[1].capture.run_id}
          /\ \A t \in orch.timers : t.run_id \in ActiveRuns
          /\ orch.workers \subseteq ActiveRuns)
    /\ [][/\ (TriggerStep /\ orch._in_flight)
                => orch' = [orch EXCEPT !.triggers = @ + 1, !.last = "_on_trigger ignored"]
          /\ orch'.runs # orch.runs => (TriggerStep /\ ActiveRuns = {})
          /\ orch'.events # orch.events => ~TriggerStep]_vars

\* A trigger was ignored while the session of the app was being processed.
C20_Witness ==
    /\ orch.last = "_on_trigger ignored"
    /\ orch._in_flight
    /\ orch._active # None
    /\ orch.workers # {}

---------------------------------------------------------------------------
\* The indices handed to the scorer so far.
Probed == {probes[p] : p \in DOMAIN probes}

\* C27: whenever total_frames > budget and budget >= 1, the seeding phase
\* probes index 0, the midpoint total_frames // 2 and the last index
\* total_frames - 1, whatever the random draws are.
C27_SeedingProbesEnds ==
    (pc = "seeded" /\ budget_arg >= 1 /\ total_frames > budget)
        => {0, n \div 2, n - 1} \subseteq Probed

\* C28: when a look-ahead frame scored after the first no-person frame shows a
\* person again (look_ok is False at line 218), the returned
\* cutoff_idx_inclusive is the last index total_frames - 1.
C28_LookaheadPersonDiscardsCutoff ==
    (pc = "done" /\ ~loc.look_ok) => meta.cutoff_idx_inclusive = n - 1

---------------------------------------------------------------------------
\* Longer runs, in which budget is left when the fill of lines 223-242 begins.

FillFrames == 8
FillBudget == 7

\* The runs of Init with a batch scorer, and the runs over FillFrames frames
\* with budget FillBudget and a score_index that never raises.
FillInit ==
    /\ \/ /\ total_frames \in 0..MaxFrames
          /\ budget_arg \in (-1)..MaxBudget
          /\ mode = "batch"
          /\ provider \in [0..(total_frames - 1) -> Outcomes]
       \/ /\ total_frames = FillFrames
          /\ budget_arg = FillBudget
          /\ mode = "index"
          /\ provider \in [0..(total_frames - 1) -> {[ok |-> TRUE, res |-> r] : r \in ResultSet}]
    /\ SelStart
    /\ StoreIdle
    /\ AppIdle

SpecFill == FillInit /\ [][Next]_vars

\* A step of the fill (lines 227-233 and 239-242) that calls the scorer.
FillStep == pc \in {"neighbors", "fill"} /\ calls' # calls

\* The indices a step hands to the scorer.
NewCalls == {calls'[p] : p \in (Len(calls) + 1)..Len(calls')}

\* C29: when total_frames > budget and scoring never fails, the fill scores
\* only indices of [0, cutoff] that were not scored before, never goes beyond
\* the budget, and on return either len(scored) == budget or every index of
\* [0, cutoff_idx_inclusive] is scored.
C29_FillSpendsBudgetInsideCutoff ==
    /\ []((pc = "done" /\ n > budget /\ ScorerTotal)
            => \/ Len(scored) = budget
               \/ (0..meta.cutoff_idx_inclusive) \subseteq Keys(scored))
    /\ [][(FillStep /\ n > budget /\ ScorerTotal)
            => /\ NewCalls \subseteq (0..loc.cutoff) \ Keys(scored)
               /\ Keys(scored') = Keys(scored) \cup NewCalls
               /\ IsPrefix(scored, scored')
               /\ Len(scored') <= budget]_vars

\* A run whose scorer never failed returned with budget left over: the
\* neighbour loop went through every radius, the cutoff lies before the last
\* index, and every index up to the cutoff is scored.
C29_Witness ==
    /\ pc = "done"
    /\ n > budget
    /\ AllOk
    /\ Len(scored) < budget
    /\ loc.radius > Max2(3, budget)
    /\ meta.cutoff_idx_inclusive < n - 1
    /\ (0..meta.cutoff_idx_inclusive) \subseteq Keys(scored)

---------------------------------------------------------------------------
\* The scored dict of a run whose scorer calls all complete in the order they
\* were submitted in (sorted(seeds), one batch): its keys ascend.
InSubmissionOrder(sc) ==
    [p \in 1..Len(sc) |-> [idx |-> SortedSeq(Keys(sc))[p], res |-> Get(sc, SortedSeq(Keys(sc))[p])]]

\* C30: the engine is deterministic in its inputs, also when the batch scorer
\* completes its parallel calls in a different order.  With budget 3 and more
\* than 3 frames no random number is drawn and the three seeds are scored in
\* one batch, so every run on the same inputs returns the best_idx of the run
\* whose calls complete in submission order.
C30_SameBestForAnyCompletionOrder ==
    (pc = "done" /\ mode = "manager" /\ budget_arg = 3 /\ n > 3)
        => meta.best_idx = PyMax(InSubmissionOrder(scored))

---------------------------------------------------------------------------
\* should_stop_capture on its own: one capture state, called tick after tick
\* with the clock and the motion reading of the tick, until it returns True.

MaxCaptureTime == 4
MaxCaptureMaxS == 3
MaxOffGraceS == 2

\* A capture just constructed at time 0, for each configuration; capture_max_s
\* = 0 switches the limit off.  before is the state the last call found.
CaptureInit ==
    /\ SelIdle
    /\ StoreIdle
    /\ heap = EmptyHeap
    /\ \E off_grace_s \in 0..MaxOffGraceS, capture_max_s \in 0..MaxCaptureMaxS :
          orch = [cfg |-> CaptureConfig(off_grace_s, capture_max_s),
                  capture |-> CaptureState("r1", 0),
                  before |-> CaptureState("r1", 0),
                  motion_is_on |-> TRUE, stop |-> FALSE, called |-> FALSE]

\* One tick: should_stop_capture(now=..., cfg=..., state=..., motion_is_on=...)
\* at the time of the tick; no tick follows the one that returned True
\* (manager.py lines 341-356).
ShouldStopCapture ==
    /\ ~orch.stop
    /\ \E t \in now..MaxCaptureTime, motion_is_on \in BOOLEAN :
          LET r == should_stop_capture(t, orch.cfg, orch.capture, motion_is_on)
          IN /\ now' = t
             /\ orch' = [orch EXCEPT !.before = orch.capture, !.capture = r.state,
                                     !.motion_is_on = motion_is_on, !.stop = r.stop,
                                     !.called = TRUE]
    /\ UNCHANGED <<data, disk, npub, ret, shape, sraised, lock, waiter, tmp, savepc, heap,
                   selInputs, selState>>

CaptureNext == ShouldStopCapture

SpecCapture == CaptureInit /\ [][CaptureNext]_vars

\* The limit is on and reached at the time of the last tick.
LimitReached ==
    orch.cfg.capture_max_s > 0 /\ (now - orch.capture.started_ts) >= orch.cfg.capture_max_s

\* C21: a tick at which now - started_ts >= capture_max_s (capture_max_s > 0)
\* ends the session with timed_out = true and ended_ts = now, whatever the
\* motion reading and the off-grace are; a session that ends on any other
\* tick, and one that has not ended, has timed_out = false.
C21_LimitEndsWithTimedOut ==
    orch.called =>
       /\ LimitReached => (orch.stop /\ orch.capture.timed_out /\ orch.capture.ended_ts = Some(now))
       /\ ~LimitReached => ~orch.capture.timed_out

\* The limit was reached on a tick that read motion off after the off-grace
\* had run out as well.
C21_Witness ==
    /\ orch.called
    /\ orch.stop
    /\ orch.capture.timed_out
    /\ ~orch.motion_is_on
    /\ orch.cfg.off_grace_s > 0
    /\ orch.before.motion_off_since # None
    /\ (now - orch.before.motion_off_since[1]) >= orch.cfg.off_grace_s

\* The time at which motion first went off, as the ticks saw it: the tick that
\* first read off, which is the last tick when no earlier one had.
OffSince == IF orch.before.motion_off_since # None THEN orch.before.motion_off_since[1] ELSE now

\* C22 (as stated): below the limit the session ends, with timed_out = false,
\* exactly at the first tick where motion is off and now - (time motion first
\* went off) >= off_grace_s, off_grace_s = 0 included; it never ends on a tick
\* where motion is on, and such a tick returns the machine to Capturing.
C22_EndsAtFirstOffTickPastGrace ==
    (orch.called /\ ~LimitReached) =>
       /\ orch.stop <=> (~orch.motion_is_on /\ (now - OffSince) >= orch.cfg.off_grace_s)
       /\ orch.stop => (~orch.capture.timed_out /\ orch.capture.ended_ts = Some(now))
       /\ orch.motion_is_on => orch.capture.motion_off_since = None

\* C22 (amended): below the limit the tick that first reads motion off only
\* records the time (Capturing to Draining) and never ends the session; the
\* session ends, with timed_out = false and ended_ts = now, exactly at the
\* first later tick that reads motion off with now - motion_off_since >=
\* off_grace_s, which for off_grace_s = 0 is the next tick that reads off; a
\* tick that reads motion on never ends it and clears motion_off_since.
C22_EndsAtFirstDrainingTickPastGrace ==
    (orch.called /\ ~LimitReached) =>
       /\ orch.stop <=> /\ ~orch.motion_is_on
                        /\ orch.before.motion_off_since # None
                        /\ (now - orch.before.motion_off_since[1]) >= orch.cfg.off_grace_s
       /\ orch.stop => (~orch.capture.timed_out /\ orch.capture.ended_ts = Some(now))
       /\ orch.motion_is_on => orch.capture.motion_off_since = None
       /\ (~orch.motion_is_on /\ orch.before.motion_off_since = None)
             => orch.capture.motion_off_since = Some(now)
       /\ (~orch.motion_is_on /\ orch.before.motion_off_since # None)
             => orch.capture.motion_off_since = orch.before.motion_off_since

\* With no off-grace the session ended at the second tick that read motion
\* off, at the very time of the first.
C22_Witness ==
    /\ orch.called
    /\ orch.stop
    /\ ~orch.capture.timed_out
    /\ orch.cfg.off_grace_s = 0
    /\ ~orch.motion_is_on
    /\ orch.before.motion_off_since = Some(now)

---------------------------------------------------------------------------
\* GarageDoorNotify, one door.  Times are seconds.

MaxDoorChanges == 4
MaxGarageTime == 5
ConsolidationDelay == 2

\* The states the cover entity reports.
DoorStates == {"open", "closed", "opening", "closing", "unavailable"}

\* initialize(), lines 44-59: nothing pending; the door is open or closed.
GarageInit ==
    /\ SelIdle
    /\ StoreIdle
    /\ heap = EmptyHeap
    /\ \E door \in {"open", "closed"} :
          orch = [door |-> door, _pending |-> None, timers |-> {}, handles |-> 0,
                  transitions |-> <<>>, sent |-> <<>>, changes |-> 0]

\* _should_notify, lines 166-172, for states that are not None.
_should_notify(old, new) ==
    /\ old \notin {"unknown", "unavailable"}
    /\ new \notin {"unknown", "unavailable"}
    /\ old # new

\* The door's state changes, and _on_door_state (lines 100-143) runs when the
\* new state is open or closed (listen_state(..., new=...), lines 58-59).
\* transitions keeps the transitions that pass _should_notify, sent the calls
\* of _send_notifications_with_optional_ai_async.
OnDoorState ==
    /\ orch.changes < MaxDoorChanges
    /\ \E new \in DoorStates \ {orch.door} :
          LET old == orch.door
              o1 == [orch EXCEPT !.door = new, !.changes = @ + 1]
              opposite == IF new = "open" THEN "closed" ELSE "open"
              handle == orch.handles + 1
          IN IF new \notin {"open", "closed"} \/ ~_should_notify(old, new)
             THEN orch' = o1
             ELSE IF orch._pending # None /\ orch._pending[1].state = opposite
             THEN orch' = [o1 EXCEPT
                             !.transitions = Append(@, [state |-> new, at |-> now]),
                             !._pending = None,
                             !.timers = {t \in @ : t.handle # orch._pending[1].handle},
                             !.sent = Append(@, [kind |-> "consolidated", state |-> new,
                                                 at |-> now,
                                                 timestamp |-> orch._pending[1].timestamp,
                                                 handle |-> 0])]
             ELSE orch' = [o1 EXCEPT
                             !.transitions = Append(@, [state |-> new, at |-> now]),
                             !.handles = handle,
                             !.timers = @ \cup {[handle |-> handle,
                                                 due |-> now + ConsolidationDelay]},
                             !._pending = Some([state |-> new, timestamp |-> now,
                                                handle |-> handle])]
    /\ UNCHANGED <<storeVars, heap, selInputs, selState>>

\* _on_delay_expired, lines 145-158, when a timer of run_in is due: whatever is
\* pending for the door is popped and sent as a single notification.
OnDelayExpired ==
    /\ \E t \in orch.timers :
          /\ t.due <= now
          /\ orch' = IF orch._pending = None
                     THEN [orch EXCEPT !.timers = @ \ {t}]
                     ELSE [orch EXCEPT
                             !.timers = @ \ {t},
                             !._pending = None,
                             !.sent = Append(@, [kind |-> "single",
                                                 state |-> orch._pending[1].state,
                                                 at |-> now,
                                                 timestamp |-> orch._pending[1].timestamp,
                                                 handle |-> t.handle])]
    /\ UNCHANGED <<storeVars, heap, selInputs, selState>>

\* A second passes; a timer that is due fires first.
GarageTick ==
    /\ now < MaxGarageTime
    /\ \A t \in orch.timers : t.due > now
    /\ now' = now + 1
    /\ UNCHANGED <<data, disk, npub, ret, shape, sraised, lock, waiter, tmp, savepc,
                   appVars, selInputs, selState>>

GarageNext ==
    \/ OnDoorState
    \/ OnDelayExpired
    \/ GarageTick

SpecGarage == GarageInit /\ [][GarageNext]_vars

\* The notifications of one kind sent so far.
SentOfKind(kind) == Cardinality({p \in DOMAIN orch.sent : orch.sent[p].kind = kind})

\* C25: every notifiable door transition leads to exactly one notification
\* dispatch: a consolidated notification for it and the opposite transition
\* that arrived while it was pending, or else a single notification of its own
\* when its delay expires.  So once no timer is live and nothing is pending, the
\* notifiable transitions are the single notifications plus two for each
\* consolidated one.
C25_OneDispatchPerTransition ==
    (orch.timers = {} /\ orch._pending = None)
       => Len(orch.transitions) = SentOfKind("single") + 2 * SentOfKind("consolidated")

---------------------------------------------------------------------------
\* GarageDoorNotify._get_detection_summary over the store, one call at a time,
\* while DetectionSummary publishes.

MaxSummaryPublishes == 2
MaxSummaryCalls == 3

\* ai_bundle_key.
SummaryKey == "garage"

\* The worker thread is not in _get_detection_summary.
NoSummaryCall ==
    [pc |-> "idle", latest |-> None, window_start_epoch |-> 0, window_end_epoch |-> 0,
     timeout_s |-> 0, max_age_s |-> 0, bundle |-> None, path |-> "", waited |-> FALSE,
     marked |-> None]

SummaryInit ==
    /\ SelIdle
    /\ StoreIdle
    /\ heap = EmptyHeap
    /\ orch = [call |-> NoSummaryCall, calls |-> 0, returned |-> <<>>]

\* DetectionSummary._finalize publishes the bundle of a run (manager.py line
\* 655); its run id is the uuid4 of _on_trigger (line 288), new for every run.
\* The bundle carries the created_at_epoch of the time it was built, or none
\* when it is the error-only dict.
PublishRun ==
    /\ LockFree
    /\ npub < MaxSummaryPublishes
    /\ \E bundle_key \in StoreKeys, score \in 0..MaxScore,
          created \in {None} \cup {Some(t) : t \in 0..now} :
          /\ data' = publish_bundle(data, bundle_key, Uuid(npub + 1), created, score)
          /\ ret' = [op |-> "publish_bundle", bundle_key |-> bundle_key, run_id |-> "",
                     arg |-> 0, value |-> None]
    /\ disk' = Document(data')
    /\ waiter' = NotifyAll(waiter)
    /\ sraised' = "none"
    /\ npub' = npub + 1
    /\ UNCHANGED <<now, shape, lock, tmp, savepc, selInputs, selState, appVars>>

\* mark_consumed that leaves the record as it is.
mark_consumed_forgets(bundles, bundle_key, run_id) == bundles

\* mark_consumed, store lines 220-230, on the bundles.
mark_consumed(bundles, bundle_key, run_id) ==
    [bundles EXCEPT ![bundle_key] = MarkFirst(@, run_id)]

\* Lines 253-271: the call starts; with a run id from the latest run_started
\* event (_get_latest_run_id, lines 87-97) get_bundle_by_run_id is tried, and
\* wait_for_run_id is called when it finds nothing and the timeout is positive.
\* The run id may be of a run that is not published yet.
SummaryByRunId ==
    /\ orch.call.pc = "idle"
    /\ orch.calls < MaxSummaryCalls
    /\ LockFree
    /\ \E latest \in {None} \cup {Some(Uuid(k)) : k \in 1..MaxSummaryPublishes},
          window_end_epoch \in 0..MaxTime, timeout_s \in 0..1, max_age_s \in 0..MaxTime :
          LET call == [NoSummaryCall EXCEPT !.latest = latest,
                                            !.window_end_epoch = window_end_epoch,
                                            !.timeout_s = timeout_s,
                                            !.max_age_s = max_age_s]
              bundle == IF latest = None THEN None
                        ELSE get_bundle_by_run_id(data, SummaryKey, latest[1], FALSE)
          IN IF latest = None
             THEN /\ orch' = [orch EXCEPT !.calls = @ + 1, !.call = [call EXCEPT !.pc = "window"]]
                  /\ UNCHANGED waiter
             ELSE IF bundle # None
             THEN /\ orch' = [orch EXCEPT !.calls = @ + 1,
                                !.call = [call EXCEPT !.pc = "mark", !.bundle = bundle,
                                                      !.path = "event"]]
                  /\ UNCHANGED waiter
             ELSE IF timeout_s > 0
             THEN /\ orch' = [orch EXCEPT !.calls = @ + 1,
                                !.call = [call EXCEPT !.pc = "wait_for_run_id"]]
                  /\ waiter' = [NoWaiter EXCEPT !.pc = "enter", !.kind = "wait_for_run_id",
                                  !.bundle_key = SummaryKey, !.run_id = latest[1],
                                  !.include_consumed = FALSE, !.timeout_s = timeout_s,
                                  !.deadline = now + Max2(0, timeout_s)]
             ELSE /\ orch' = [orch EXCEPT !.calls = @ + 1, !.call = [call EXCEPT !.pc = "window"]]
                  /\ UNCHANGED waiter
    /\ UNCHANGED <<data, disk, now, npub, ret, shape, sraised, lock, tmp, savepc, heap,
                   selInputs, selState>>

\* Lines 295-318: get_best_bundle over the window, and wait_for_bundle with the
\* window end moved to max(window_end_epoch, time.time()) + timeout_s when it
\* finds nothing and the timeout is positive; else the call returns None.
SummaryByWindow ==
    /\ orch.call.pc = "window"
    /\ LockFree
    /\ LET call == orch.call
           bundle == get_best_bundle(data, SummaryKey, call.window_start_epoch,
                                     call.window_end_epoch, FALSE, Some(call.max_age_s))
       IN IF bundle # None
          THEN /\ orch' = [orch EXCEPT !.call = [call EXCEPT !.pc = "mark", !.bundle = bundle,
                                                             !.path = "window"]]
               /\ UNCHANGED waiter
          ELSE IF call.timeout_s > 0
          THEN /\ orch' = [orch EXCEPT !.call = [call EXCEPT !.pc = "wait_for_bundle"]]
               /\ waiter' = [NoWaiter EXCEPT !.pc = "enter", !.kind = "wait_for_bundle",
                               !.bundle_key = SummaryKey,
                               !.window_start_epoch = call.window_start_epoch,
                               !.window_end_epoch = Max2(call.window_end_epoch, now) + call.timeout_s,
                               !.include_consumed = FALSE,
                               !.max_age_s = Some(call.max_age_s),
                               !.timeout_s = call.timeout_s,
                               !.deadline = now + Max2(0, call.timeout_s)]
          ELSE /\ orch' = [orch EXCEPT !.call = NoSummaryCall]
               /\ UNCHANGED waiter
    /\ UNCHANGED <<data, disk, now, npub, ret, shape, sraised, lock, tmp, savepc, heap,
                   selInputs, selState>>

\* wait_for_run_id (lines 265-270) or wait_for_bundle (lines 311-318) has
\* returned: with a bundle the call goes on to mark it; without one the event
\* path falls through to the window and the window path returns None (320-326).
SummaryWaited ==
    /\ orch.call.pc \in {"wait_for_run_id", "wait_for_bundle"}
    /\ waiter.pc = "done"
    /\ waiter' = NoWaiter
    /\ LET call == orch.call
       IN orch' = IF waiter.result # None
                  THEN [orch EXCEPT !.call = [call EXCEPT
                          !.pc = "mark", !.bundle = waiter.result, !.waited = TRUE,
                          !.path = IF call.pc = "wait_for_run_id" THEN "event" ELSE "window"]]
                  ELSE IF call.pc = "wait_for_run_id"
                  THEN [orch EXCEPT !.call = [call EXCEPT !.pc = "window"]]
                  ELSE [orch EXCEPT !.call = NoSummaryCall]
    /\ UNCHANGED <<data, disk, now, npub, ret, shape, sraised, lock, tmp, savepc, heap,
                   selInputs, selState>>

\* Lines 274 and 331-333: mark_consumed(bundle_key, run_id), with the run id
\* asked for on the event path and the bundle's own on the window path.
SummaryMarkConsumed ==
    /\ orch.call.pc = "mark"
    /\ LockFree
    /\ LET call == orch.call
           run_id == IF call.path = "event" THEN call.latest[1] ELSE call.bundle[1].run_id
       IN /\ data' = mark_consumed(data, SummaryKey, run_id)
          /\ ret' = [op |-> "mark_consumed", bundle_key |-> SummaryKey, run_id |-> run_id,
                     arg |-> 0,
                     value |-> Some(\E p \in DOMAIN data[SummaryKey] :
                                        data[SummaryKey][p].run_id = run_id)]
          /\ orch' = [orch EXCEPT !.call = [call EXCEPT !.pc = "return",
                                                        !.marked = Some(run_id)]]
    /\ disk' = IF data' # data THEN Document(data') ELSE disk
    /\ waiter' = IF data' # data THEN NotifyAll(waiter) ELSE waiter
    /\ sraised' = "none"
    /\ UNCHANGED <<now, npub, shape, lock, tmp, savepc, heap, selInputs, selState>>

\* Lines 283-289 and 345-351: the call returns the result for the bundle.
SummaryReturn ==
    /\ orch.call.pc = "return"
    /\ orch' = [orch EXCEPT !.call = NoSummaryCall,
                            !.returned = Append(@, [run_id |-> orch.call.bundle[1].run_id,
                                                    waited |-> orch.call.waited,
                                                    path |-> orch.call.path,
                                                    marked |-> orch.call.marked])]
    /\ UNCHANGED <<storeVars, heap, selInputs, selState>>

\* The process restarts while no call is running.
SummaryRestart ==
    /\ orch.call.pc = "idle"
    /\ Reload

SummaryNext ==
    \/ SummaryByRunId
    \/ SummaryByWindow
    \/ SummaryWaited
    \/ SummaryMarkConsumed
    \/ SummaryReturn
    \/ WaitEnter
    \/ WaitCheck
    \/ WaitRemaining
    \/ WaitTimeout
    \/ PublishRun
    \/ Cleanup
    \/ SummaryRestart
    \/ Tick

SpecSummary == SummaryInit /\ [][SummaryNext]_vars

\* C26: when _get_detection_summary returns a result for a bundle (found at
\* once, after waiting by run id or after waiting by window), it has called
\* mark_consumed with the bundle's key and run id, the bundle is consumed in
\* the store if it is still there, and no later call returns the same bundle.
C26_ReturnedBundleIsConsumed ==
    /\ orch.call.pc = "return"
          => /\ orch.call.marked = Some(orch.call.bundle[1].run_id)
             /\ \A p \in DOMAIN data[SummaryKey] :
                   data[SummaryKey][p].run_id = orch.call.bundle[1].run_id
                      => data[SummaryKey][p].consumed
    /\ \A p, q \in DOMAIN orch.returned :
          /\ orch.returned[p].marked = Some(orch.returned[p].run_id)
          /\ p # q => orch.returned[p].run_id # orch.returned[q].run_id

\* A result was returned for a bundle waited for by run id, and a later call
\* returned one for another bundle waited for by window.
C26_Witness ==
    /\ Len(orch.returned) = 2
    /\ orch.returned[1].waited /\ orch.returned[1].path = "event"
    /\ orch.returned[2].waited /\ orch.returned[2].path = "window"

---------------------------------------------------------------------------
\* The lifecycle of a session.

\* The events of one name fired so far.
EventsNamed(event) == {j \in DOMAIN orch.events : orch.events[j].event = event}

\* C34: every accepted trigger runs one lifecycle: run_started is fired for
\* it, and while the orchestrator is in flight there is an active session with
\* a capture tick, a processing thread or a finalize call pending for it that
\* will clear the flag; no accepted trigger leaves the orchestrator stuck in
\* flight.
C34_AcceptedTriggerRunsLifecycle ==
    /\ orch.runs = Cardinality(EventsNamed("run_started"))
    /\ orch._in_flight
          => /\ orch._active # None
             /\ \/ \E t \in orch.timers : t.run_id = orch._active[1].capture.run_id
                \/ orch._active[1].capture.run_id \in orch.workers

\* The values of orch.last that a call of _capture_tick on the active session
\* leaves.
TickLasts ==
    {"_capture_tick snapshot", "_capture_tick snapshot failed", "_capture_tick",
     "_capture_tick done"}

\* A call of _capture_tick on the active session.
ActiveTickStep ==
    /\ orch._active # None
    /\ orch'._active # None
    /\ orch' # orch
    /\ orch'.last \in TickLasts

Ended == orch._active # None /\ orch._active[1].capture.ended_ts # None

---------------------------------------------------------------------------
\* The motion-on time of a session and the durations of its bundle.  Times are
\* in thirds of a millisecond, so that rounding to three decimals shows.

UnitsPerMilli == 3
MaxMotionTime == 5
MaxMotionTicks == 4

\* round(x, 3) of a time: the nearest whole millisecond.
round3(x) ==
    LET r == x % UnitsPerMilli
    IN IF 2 * r < UnitsPerMilli THEN x - r ELSE x + (UnitsPerMilli - r)

\* build_bundle_dict, bundle.py lines 145-148 and 226-228: the three durations
\* of the bundle, from the capture state and the time of publishing.
build_bundle_dict(capture, published_ts) ==
    LET capture_ended_epoch == IF capture.ended_ts = None THEN published_ts
                               ELSE capture.ended_ts[1]
        capture_duration_s == Max2(0, capture_ended_epoch - capture.started_ts)
        motion_on_s == Max2(0, capture.motion_on_total_s)
        buffer_overhang_s == Max2(0, capture_duration_s - motion_on_s)
    IN [capture_duration_s |-> round3(capture_duration_s),
        motion_detected_s |-> round3(motion_on_s),
        buffer_overhang_s |-> round3(buffer_overhang_s)]

\* A session started by a trigger at time 0, for each off_grace_s and
\* capture_max_s; seen holds what the ticks read.
MotionInit ==
    /\ SelIdle
    /\ StoreIdle
    /\ heap = EmptyHeap
    /\ \E off_grace_s \in 0..MaxOffGraceS, capture_max_s \in {0, MaxMotionTime - 1} :
          orch = [cfg |-> CaptureConfig(off_grace_s, capture_max_s),
                  capture |-> TrackedCaptureState(Uuid(1), 0),
                  seen |-> <<>>, bundle |-> None]

\* _capture_tick, lines 321-356, at a time t: the motion is read, the motion-on
\* time brought up to date, and should_stop_capture asked.  The snapshot of
\* lines 358-387 is left out.
MotionTick ==
    /\ orch.capture.ended_ts = None
    /\ Len(orch.seen) < MaxMotionTicks
    /\ \E t \in now..MaxMotionTime, motion_is_on \in BOOLEAN :
          LET r == should_stop_capture(t, orch.cfg,
                                       track_motion(t, orch.capture, motion_is_on),
                                       motion_is_on)
          IN /\ now' = t
             /\ orch' = [orch EXCEPT
                           !.capture = IF r.stop THEN finalize_motion(t, r.state) ELSE r.state,
                           !.seen = Append(@, [at |-> t, motion_is_on |-> motion_is_on])]
    /\ UNCHANGED <<data, disk, npub, ret, shape, sraised, lock, waiter, tmp, savepc, heap,
                   selInputs, selState>>

\* _build_bundle on the processing thread, after the capture has ended.
BuildBundleDict ==
    /\ orch.capture.ended_ts # None
    /\ orch.bundle = None
    /\ \E published_ts \in now..MaxMotionTime :
          /\ now' = published_ts
          /\ orch' = [orch EXCEPT !.bundle = Some(build_bundle_dict(orch.capture, published_ts))]
    /\ UNCHANGED <<data, disk, npub, ret, shape, sraised, lock, waiter, tmp, savepc, heap,
                   selInputs, selState>>

MotionNext ==
    \/ MotionTick
    \/ BuildBundleDict

SpecMotion == MotionInit /\ [][MotionNext]_vars

RECURSIVE OnTime(_, _, _)
\* The time between consecutive readings of the motion, for the readings seen,
\* that began with the motion on; the motion is on at from.
OnTime(seen, from, on) ==
    IF seen = <<>> THEN 0
    ELSE (IF on THEN Head(seen).at - from ELSE 0)
         + OnTime(Tail(seen), Head(seen).at, Head(seen).motion_is_on)

---------------------------------------------------------------------------
\* Threads calling the public API of one store: the RLock of line 55, the
\* condition variable of line 56, and each call step by step.

Threads == {1, 2}
MaxThreadCalls == 4
MaxThreadPublishes == 2

StoreOps ==
    {"publish_bundle", "get_best_bundle", "get_bundle_by_run_id", "wait_for_bundle",
     "wait_for_run_id", "mark_consumed", "cleanup"}

WaitOps == {"wait_for_bundle", "wait_for_run_id"}

\* The calls that hand a record to their caller.
RetrieveOps == {"get_best_bundle", "get_bundle_by_run_id"} \cup WaitOps

\* A thread that is in no call.  pending is the run id of a record the thread
\* retrieved and has not yet passed to mark_consumed.
IdleThread ==
    [pc |-> "idle", op |-> "", run_id |-> "", timeout_s |-> 0, clock |-> 0, deadline |-> 0,
     found |-> None, pending |-> None]

ThreadInit ==
    /\ SelIdle
    /\ StoreIdle
    /\ heap = EmptyHeap
    /\ orch = [owner |-> 0, th |-> [t \in Threads |-> IdleThread], calls |-> 0, got |-> <<>>]

\* A threading.Lock in the place of the RLock: the owner cannot acquire it again.
AcquirableOnce(o, t) == o.owner = 0

\* threading.RLock (line 55): a thread acquires the lock when no thread owns it
\* or when it is the owner itself.
Acquirable(o, t) == IF o.owner = 0 THEN TRUE ELSE o.owner = t

\* self._cv.notify_all() on the threads blocked in self._cv.wait.
NotifyThreads(th) ==
    [u \in Threads |-> IF th[u].pc = "blocked" THEN [th[u] EXCEPT !.pc = "woken"] ELSE th[u]]

\* What the retrieving calls look up, for the consumer's arguments
\* (include_consumed = False, the whole window, no max_age_s).
ThreadQuery(c, bundles) ==
    IF c.op \in {"get_bundle_by_run_id", "wait_for_run_id"}
    THEN get_bundle_by_run_id(bundles, SummaryKey, c.run_id, FALSE)
    ELSE get_best_bundle(bundles, SummaryKey, 0, MaxTime, FALSE, None)

\* The call returns found to thread t and the lock is released; a record that
\* a retrieving call returns is now held by t.
ThreadReturn(o, t, found) ==
    [o EXCEPT !.owner = 0,
              !.th[t].pc = "idle",
              !.th[t].found = found,
              !.th[t].pending = IF o.th[t].op \in RetrieveOps /\ found # None
                                THEN Some(found[1].run_id) ELSE None,
              !.got = IF o.th[t].op \in RetrieveOps /\ found # None
                      THEN Append(@, <<t, found[1].run_id>>) ELSE @]

\* A thread calls the store.  The statements before the `with` run here: the
\* clock is read for created_at_epoch (line 89), the cutoff (line 236) and the
\* deadline (lines 157, 205).  A consumer that holds a retrieved record calls
\* mark_consumed with its run id next (garage_door_notify.py lines 328-333);
\* a publisher's run id is new.  The clock of the model runs to MaxTime, and
\* only waits whose deadline it reaches are followed.
ThreadCall(t) ==
    /\ orch.th[t].pc = "idle"
    /\ orch.calls < MaxThreadCalls
    /\ \E op \in StoreOps, k \in 1..MaxThreadPublishes, timeout_s \in 0..1 :
          /\ IF orch.th[t].pending # None
             THEN op = "mark_consumed" /\ Uuid(k) = orch.th[t].pending[1]
             ELSE IF op = "publish_bundle" THEN npub < MaxThreadPublishes /\ k = npub + 1
             ELSE IF op \in {"get_bundle_by_run_id", "wait_for_run_id", "mark_consumed"}
             THEN TRUE ELSE k = 1
          /\ IF op \in WaitOps THEN now + timeout_s <= MaxTime ELSE timeout_s = 0
          /\ npub' = IF op = "publish_bundle" THEN npub + 1 ELSE npub
          /\ orch' = [orch EXCEPT !.calls = @ + 1,
                                  !.th[t] = [IdleThread EXCEPT !.pc = "lock", !.op = op,
                                                !.run_id = Uuid(k),
                                                !.timeout_s = timeout_s,
                                                !.clock = now,
                                                !.deadline = now + Max2(0, timeout_s)]]
    /\ UNCHANGED <<data, disk, now, ret, shape, sraised, lock, waiter, tmp, savepc, heap,
                   selInputs, selState>>

\* `with self._cv:` / `with self._lock:` on entry, and the re-acquisition of the
\* lock that ends self._cv.wait.
ThreadAcquire(t) ==
    /\ orch.th[t].pc \in {"lock", "woken"}
    /\ Acquirable(orch, t)
    /\ orch' = [orch EXCEPT !.owner = t,
                            !.th[t].pc = IF orch.th[t].op \in WaitOps THEN "loop" ELSE "body"]
    /\ UNCHANGED <<storeVars, heap, selInputs, selState>>

\* The body of publish_bundle (97-103), get_best_bundle (119-142),
\* get_bundle_by_run_id (185-192), mark_consumed (221-230) or cleanup (238-247)
\* under the lock; _save and notify_all when the data changed.  cleanup is
\* called with retention_hours = 0, so its cutoff is the clock read at the call.
ThreadBody(t) ==
    /\ orch.th[t].pc = "body"
    /\ LET c == orch.th[t]
       IN /\ data' = IF c.op = "publish_bundle"
                     THEN publish_bundle(data, SummaryKey, c.run_id, Some(c.clock), 0)
                     ELSE IF c.op = "mark_consumed"
                     THEN mark_consumed(data, SummaryKey, c.run_id)
                     ELSE IF c.op = "cleanup" THEN cleanup(data, now - c.clock)
                     ELSE data
          /\ disk' = IF data' # data \/ c.op = "publish_bundle" THEN Document(data') ELSE disk
          /\ orch' = LET o == ThreadReturn(orch, t, IF c.op \in RetrieveOps
                                                     THEN ThreadQuery(c, data) ELSE None)
                     IN IF data' # data \/ c.op = "publish_bundle"
                        THEN [o EXCEPT !.th = NotifyThreads(@)] ELSE o
    /\ UNCHANGED <<now, npub, ret, shape, sraised, lock, waiter, tmp, savepc, heap,
                   selInputs, selState>>

\* Lines 160-168 and 208-210: inside `with self._cv:` the loop calls
\* get_best_bundle / get_bundle_by_run_id, which enters `with self._lock:`
\* again; a record that is found is returned.
ThreadLoop(t) ==
    /\ orch.th[t].pc = "loop"
    /\ Acquirable(orch, t)
    /\ LET found == ThreadQuery(orch.th[t], data)
       IN orch' = IF found # None THEN ThreadReturn(orch, t, found)
                  ELSE [orch EXCEPT !.th[t].pc = "remaining"]
    /\ UNCHANGED <<storeVars, heap, selInputs, selState>>

\* Lines 169-172 and 211-214: at or past the deadline the call returns None,
\* else self._cv.wait releases the lock and blocks.
ThreadRemaining(t) ==
    /\ orch.th[t].pc = "remaining"
    /\ orch' = IF orch.th[t].deadline - now <= 0 THEN ThreadReturn(orch, t, None)
               ELSE [orch EXCEPT !.owner = 0, !.th[t].pc = "blocked"]
    /\ UNCHANGED <<storeVars, heap, selInputs, selState>>

\* self._cv.wait(timeout=remaining) ends by itself when the time is up.
ThreadTimeout(t) ==
    /\ orch.th[t].pc = "blocked"
    /\ now >= orch.th[t].deadline
    /\ orch' = [orch EXCEPT !.th[t].pc = "woken"]
    /\ UNCHANGED <<storeVars, heap, selInputs, selState>>

\* The steps of thread t inside a call.
ThreadStep(t) ==
    \/ ThreadAcquire(t)
    \/ ThreadBody(t)
    \/ ThreadLoop(t)
    \/ ThreadRemaining(t)
    \/ ThreadTimeout(t)

ThreadNext ==
    \/ \E t \in Threads : ThreadCall(t)
    \/ \E t \in Threads : ThreadStep(t)
    \/ Tick

SpecThreads == ThreadInit /\ [][ThreadNext]_vars

\* Every thread is scheduled, and time passes.
SpecThreadsFair ==
    /\ SpecThreads
    /\ \A t \in Threads : WF_vars(ThreadStep(t))
    /\ WF_vars(Tick)

\* C35: no interleaving of the store's calls deadlocks: a thread holds the lock
\* only inside the locked part of its call and never while blocked in
\* self._cv.wait, the acquisition inside a wait loop by the thread that owns
\* the lock succeeds, and every call that a thread has started returns.
C35_NoDeadlock ==
    /\ [](\A t \in Threads :
             /\ orch.th[t].pc \in {"idle", "lock", "blocked", "woken"} => orch.owner # t
             /\ orch.th[t].pc \in {"body", "loop", "remaining"} => orch.owner = t
             /\ orch.th[t].pc = "loop" => Acquirable(orch, t))
    /\ \A t \in Threads : (orch.th[t].pc # "idle") ~> (orch.th[t].pc = "idle")

\* One waiting call is blocked in self._cv.wait while the other thread, in a
\* waiting call too, owns the lock inside its loop.
C35_Witness ==
    \E t, u \in Threads :
       /\ orch.th[t].pc = "blocked"
       /\ orch.th[u].pc = "loop"
       /\ orch.th[u].op \in WaitOps
       /\ orch.owner = u

\* C38: a published record is delivered to at most one consumer: of the
\* records that the retrieving calls (include_consumed = False) have returned
\* to threads that then call mark_consumed, no two have the same run id.
C38_DeliveredToOneConsumer ==
    \A i, j \in DOMAIN orch.got : i # j => orch.got[i][2] # orch.got[j][2]

\* The step sends a single notification.
SendsSingle ==
    /\ Len(orch'.sent) = Len(orch.sent) + 1
    /\ orch'.sent[Len(orch'.sent)].kind = "single"

\* C40: a single notification for a door transition is sent no earlier than
\* consolidation_delay after that transition: at most one timer is live for the
\* door, and the timer that sends the notification of a pending transition is
\* the timer that was scheduled for that transition.
C40_SingleAfterDelay ==
    /\ [](Cardinality(orch.timers) <= 1)
    /\ [](\A p \in DOMAIN orch.sent :
             orch.sent[p].kind = "single"
                => orch.sent[p].at >= orch.sent[p].timestamp + ConsolidationDelay)
    /\ [][SendsSingle
             => /\ orch._pending # None
                /\ orch'.sent[Len(orch'.sent)].handle = orch._pending[1].handle]_vars

\* C36: in the SelectionMeta that adaptive_select_and_score returns,
\* 0 <= cutoff_idx_inclusive <= total_frames - 1 and best_idx is not beyond
\* cutoff_idx_inclusive.
C36_BestWithinCutoff ==
    pc = "done"
       => /\ 0 <= meta.cutoff_idx_inclusive
          /\ meta.cutoff_idx_inclusive <= total_frames - 1
          /\ meta.best_idx <= meta.cutoff_idx_inclusive

\* The step stays inside the loop at pc.
LoopStep(at) == pc = at /\ pc' = at

\* The order in which adaptive_select_and_score passes through its parts.
PcRank(p) ==
    CASE p = "start" -> 0
      [] p \in {"all", "seed"} -> 1
      [] p = "seeded" -> 2
      [] p = "search" -> 3
      [] p = "walk" -> 4
      [] p = "boundary" -> 5
      [] p = "look" -> 6
      [] p = "neighbors" -> 7
      [] p = "fill" -> 8
      [] OTHER -> 9

\* C37: adaptive_select_and_score terminates after finitely many scorer
\* calls: it never goes back to an earlier part, and every iteration of the
\* scoring of all frames, the peak search, the forward walk, the boundary
\* search, the look-ahead, the neighbour fill and the random fill moves its loop
\* variable towards the loop's bound, whatever the scorer returns.
C37_Terminates ==
    [][/\ pc' # pc => PcRank(pc') > PcRank(pc)
       /\ pc' = pc => pc \in {"all", "search", "walk", "boundary", "look", "neighbors", "fill"}
       /\ LoopStep("all") => (loc'.i = loc.i + 1 /\ loc'.i <= n)
       /\ LoopStep("search") => (/\ loc'.iter = loc.iter + 1
                                 /\ loc'.iter <= iterations
                                 /\ loc'.hi - loc'.lo < loc.hi - loc.lo)
       /\ LoopStep("walk") => (loc'.step = 2 * loc.step /\ loc'.step <= n)
       /\ LoopStep("boundary") => (/\ loc'.b - loc'.a < loc.b - loc.a
                                   /\ loc'.b - loc'.a >= 1)
       /\ LoopStep("look") => (loc'.k > loc.k /\ loc'.k <= LookaheadAfterNoPeople + 1)
       /\ LoopStep("neighbors") => (/\ loc'.radius = loc.radius + 1
                                    /\ loc'.radius <= Max2(3, budget) + 1)
       /\ LoopStep("fill") => (/\ loc'.candidates \subseteq loc.candidates
                               /\ loc'.candidates # loc.candidates)]_vars

\* A batch scorer returned no result for a requested index, so the neighbour
\* fill ran to its last radius and the random fill went through its candidates
\* with the budget unspent, and the call returned.
C37_Witness ==
    /\ pc = "done"
    /\ mode = "batch"
    /\ Len(scored) < budget
    /\ loc.radius = Max2(3, budget) + 1
    /\ loc.candidates = {}
    /\ \E i \in DOMAIN provider : ~provider[i].ok

=============================================================================
